---- MODULE Spec2Model ----
(***************************************************************************)
(* Model of the tool-orchestration state machine (src/agent/graph.py,      *)
(* src/state/state.py, src/inference/run.py), of the streaming reconciler  *)
(* (src/inference/run.py), of the booking tools and the knowledge query    *)
(* (src/tools/registry.py) and of the vector-store helpers: chunking,      *)
(* ingestion, insert with migration, load and search                       *)
(* (src/services/milvus/milvus_repo.py).                                   *)
(*                                                                         *)
(* Python str values are TLA+ strings.  A character outside ASCII is       *)
(* written with one ASCII stand-in of the same width (one character):      *)
(*    1 = d-stroke (U+0111)      2 = D-stroke (U+0110), its upper case     *)
(*    3 = a-breve-dot (U+1EB7)   4 = A-breve-dot (U+1EB6), its upper case  *)
(*    5 = o-grave   6 = o-circumflex   7 = u-acute                         *)
(*    8 = o-circumflex-dot       9 = o-dot-below                           *)
(* so "13t ph5ng" is the trigger phrase of graph.py:159 whose unaccented   *)
(* spelling is "dat phong".                                                *)
(***************************************************************************)
EXTENDS Integers, Sequences, FiniteSets, TLC

VARIABLES
    tools,      \* GeminiAgentGraph.tools: the names of the registered tools
    llm,        \* GeminiAgentGraph.gemini_llm is not None (and HumanMessage too)
    st,         \* the AgentState dict of the request in flight
    pc,         \* the node of the graph the request is at
    visited,    \* history: the nodes that have run, in order
    toolCall,   \* history: what tool_node invoked and what came back
    llmCalls,   \* history: what each call of the language model answered
    resp,       \* what invoke_agent returned
    emitted,    \* stream_agent: the chunk contents the model stream produced so far
    truth,      \* stream_agent: the text the model has really generated so far
    last,       \* stream_agent: local `last`
    pending,    \* stream_agent: the part of `delta` not yet yielded
    yielded,    \* stream_agent: everything the generator has yielded so far
    live,       \* stream_agent: the part of `yielded` that came from the model stream
    base_output,\* stream_agent: local `base_output`
    spc,        \* stream_agent: where the generator is
    splitArgs,  \* _split_text: the arguments text, chunk_size, overlap of the call
    chunk_size, \* _split_text: local `chunk_size` (after line 398)
    overlap,    \* _split_text: local `overlap` (after line 400)
    words,      \* _split_text: local `words`
    chunks,     \* _split_text: local `chunks`
    start,      \* _split_text: local `start`
    end,        \* _split_text: local `end` of the last iteration (0 before the first)
    spl,        \* _split_text: where the call is
    meeting_rooms,    \* Mongo collection meeting_rooms: a set of documents
    schedule_booking, \* Mongo collection schedule_booking: the documents, in insertion order
    bookLog,          \* history: the last booking-tool call and what it returned
    collections,      \* Milvus: collection name -> its state in the store
    migrationAttempted, \* milvus_repo._MIGRATION_ATTEMPTED
    thr,              \* one record per thread that runs insert_embeddings: where it
                      \* is, its locals and (history) the store operations it made
    kq,               \* the call of load_collection, search_text or ihos_doc_search
                      \* in flight: where it is, its locals and (history) the
                      \* operations it made
    ing,              \* the call of index_text_file in flight: where it is, its
                      \* locals and what it returned
    pair,             \* two concurrent calls of invoke_agent and graph._DEFAULT_INSTANCE
    gc,               \* milvus_repo._client, _lock and the threads in get_client
    ep                \* one request of the streaming endpoint and the conversation
                      \* history

agentVars == <<tools, llm, st, pc, visited, toolCall, llmCalls, resp>>
streamVars == <<emitted, truth, last, pending, yielded, live, base_output, spc>>
splitVars == <<splitArgs, chunk_size, overlap, words, chunks, start, end, spl>>
bookVars == <<meeting_rooms, schedule_booking, bookLog>>
milvusVars == <<collections, migrationAttempted, thr>>
queryVars == <<kq>>
ingestVars == <<ing>>
pairVars == <<pair>>
clientVars == <<gc>>
endpointVars == <<ep>>
vars == <<agentVars, streamVars, splitVars, bookVars, milvusVars, queryVars,
          ingestVars, pairVars, clientVars, endpointVars>>

\* what a step of one component leaves alone
notAgentVars ==
    <<streamVars, splitVars, bookVars, milvusVars, queryVars, ingestVars,
      pairVars, clientVars, endpointVars>>
notStreamVars ==
    <<agentVars, splitVars, bookVars, milvusVars, queryVars, ingestVars,
      pairVars, clientVars, endpointVars>>
notSplitVars ==
    <<agentVars, streamVars, bookVars, milvusVars, queryVars, ingestVars,
      pairVars, clientVars, endpointVars>>
notBookVars ==
    <<agentVars, streamVars, splitVars, milvusVars, queryVars, ingestVars,
      pairVars, clientVars, endpointVars>>
notMilvusVars ==
    <<agentVars, streamVars, splitVars, bookVars, queryVars, ingestVars,
      pairVars, clientVars, endpointVars>>
notQueryVars ==
    <<agentVars, streamVars, splitVars, bookVars, milvusVars, ingestVars,
      pairVars, clientVars, endpointVars>>
\* index_text_file runs _split_text and insert_embeddings
notIngestVars ==
    <<agentVars, streamVars, bookVars, queryVars, pairVars, clientVars, endpointVars>>
notPairVars ==
    <<agentVars, streamVars, splitVars, bookVars, milvusVars, queryVars, ingestVars,
      clientVars, endpointVars>>
notClientVars ==
    <<agentVars, streamVars, splitVars, bookVars, milvusVars, queryVars, ingestVars,
      pairVars, endpointVars>>
notEndpointVars ==
    <<agentVars, streamVars, splitVars, bookVars, milvusVars, queryVars, ingestVars,
      pairVars, clientVars>>

----------------------------------------------------------------------------
(* Bounds *)

\* a query is the concatenation of at most MaxParts fragments of QueryParts
MaxParts == 2
\* the model returns at most MaxCalls tool calls in one response
MaxCalls == 2
\* the model stream produces at most MaxEmissions chunks
MaxEmissions == 3
\* a text given to _split_text has at most MaxText characters
MaxText == 5
\* chunk_size is at most MaxChunkSize, overlap at most MaxOverlap
MaxChunkSize == 2
MaxOverlap == 2
\* a call of _split_text is followed for at most MaxChunks appended chunks
MaxChunks == 4
\* schedule_booking holds at most MaxStored documents
MaxStored == 3
\* insert_embeddings is run by MaxThreads threads, one call each
MaxThreads == 2

----------------------------------------------------------------------------
(* Python values *)

\* Python None, where a str may stand as well
None == "<None>"

\* the empty dict {}
EmptyMap == [k \in {} |-> ""]

\* bool(v) of an Optional[str]
Truthy(v) == v # None /\ v # ""

\* v or d
Or(v, d) == IF Truthy(v) THEN v ELSE d

\* f"{v}" of an Optional[str]
Fmt(v) == IF v = None THEN "None" ELSE v

\* m[k] = v on a dict
Put(m, k, v) == [x \in (DOMAIN m) \cup {k} |-> IF x = k THEN v ELSE m[x]]

\* m.get(k, d)
Get(m, k, d) == IF k \in DOMAIN m THEN m[k] ELSE d

Last(s) == s[Len(s)]

IsPrefix(s, t) == Len(s) <= Len(t) /\ SubSeq(t, 1, Len(s)) = s

\* str.startswith
StartsWith(s, p) == Len(p) <= Len(s) /\ SubSeq(s, 1, Len(p)) = p

\* `tok in s` on two str
Contains(s, tok) ==
    \E i \in 0..(Len(s) - Len(tok)) : SubSeq(s, i + 1, i + Len(tok)) = tok

UpperToLower ==
    ("A" :> "a") @@ ("B" :> "b") @@ ("C" :> "c") @@ ("D" :> "d") @@ ("E" :> "e") @@
    ("F" :> "f") @@ ("G" :> "g") @@ ("H" :> "h") @@ ("I" :> "i") @@ ("J" :> "j") @@
    ("K" :> "k") @@ ("L" :> "l") @@ ("M" :> "m") @@ ("N" :> "n") @@ ("O" :> "o") @@
    ("P" :> "p") @@ ("Q" :> "q") @@ ("R" :> "r") @@ ("S" :> "s") @@ ("T" :> "t") @@
    ("U" :> "u") @@ ("V" :> "v") @@ ("W" :> "w") @@ ("X" :> "x") @@ ("Y" :> "y") @@
    ("Z" :> "z") @@ ("2" :> "1") @@ ("4" :> "3")

\* the characters of s from position i on, each mapped to lower case
RECURSIVE LowerFrom(_, _)
LowerFrom(s, i) ==
    IF i > Len(s) THEN ""
    ELSE LET c == SubSeq(s, i, i)
         IN  Get(UpperToLower, c, c) \o LowerFrom(s, i + 1)

\* str.lower
Lower(s) == LowerFrom(s, 1)

----------------------------------------------------------------------------
(* The tool registry: src/tools/registry.py *)

\* ALL_TOOLS (registry.py:355-371): tool name -> the names of its declared
\* parameters (the keys of the tool's `args` schema)
ToolParams ==
    [ echo                               |-> <<"text">>,
      all_employees                      |-> <<>>,
      employees_by_department_names      |-> <<"department_names">>,
      ihos_doc_search                    |-> <<"query", "collection">>,
      internet_search                    |-> <<"query">>,
      chart_employees_by_department      |-> <<>>,
      chart_employees_by_gender          |-> <<>>,
      chart_age_distribution             |-> <<"buckets">>,
      chart_salary_by_department         |-> <<>>,
      chart_avg_salary_by_experience     |-> <<>>,
      chart_education_level_distribution |-> <<>>,
      chart_headcount_by_hire_year       |-> <<>>,
      available_meeting_rooms            |-> <<"time_start", "time_end", "booking_date">>,
      book_meeting_room                  |-> <<"room">>,
      list_meeting_rooms                 |-> <<>> ]

ALL_TOOLS == DOMAIN ToolParams

\* The `tools` argument of GeminiAgentGraph: None (ALL_TOOLS) or a list of the
\* caller's; the one modelled is ALL_TOOLS without the debug tool.
Registries == {ALL_TOOLS, ALL_TOOLS \ {"echo"}}

\* echo(text)
echo(text) == IF text # "" THEN "ECHO: " \o text ELSE "ECHO: (empty)"

\* What the tools other than echo return: a JSON document (json.dumps of a
\* dict), or, for internet_search, whatever text the search engine gave.
ToolResults(name) ==
    IF name = "internet_search" THEN {"ket qua web", ""}
    ELSE {"{\"count\": 0, \"items\": []}"}

\* The messages of the exceptions a tool raises
ToolErrors == {"db down"}

\* tool_obj.invoke(args_map): the outcomes, [raised, val]
ToolInvoke(name, args_map) ==
    IF name = "echo"
    THEN IF DOMAIN args_map \subseteq {"text"}
         THEN {[raised |-> FALSE, val |-> echo(Get(args_map, "text", ""))]}
         ELSE {[raised |-> TRUE, val |-> "validation error"]}
    ELSE {[raised |-> FALSE, val |-> r] : r \in ToolResults(name)}
         \cup {[raised |-> TRUE, val |-> e] : e \in ToolErrors}

----------------------------------------------------------------------------
(* The request state: src/state/state.py *)

\* init_state(query).  The key tool_args is absent; every reader of it treats
\* an absent tool_args as {} (`state.get("tool_args") or {}`,
\* `state.get("tool_args", {})`), and it is {} here.
init_state(query) ==
    [ query         |-> query,
      selected_tool |-> None,
      tool_args     |-> EmptyMap,
      intermediate  |-> <<>>,
      output        |-> None,
      trace         |-> <<"INIT: " \o query>> ]

QueryParts == {"13t", "24T", " ph5ng"}

RECURSIVE Concats(_)
Concats(n) ==
    IF n = 0 THEN {""}
    ELSE LET prev == Concats(n - 1)
         IN  prev \cup {p \o q : p \in prev, q \in QueryParts}

Queries == Concats(MaxParts)

----------------------------------------------------------------------------
(* What the language model answers *)

LlmErrors == {"quota"}

\* repr of an args dict, as f"{args}" prints it
ParamOrder == <<"text", "query", "collection", "room">>

RECURSIVE ReprItems(_, _, _)
ReprItems(args, i, first) ==
    IF i > Len(ParamOrder) THEN ""
    ELSE LET k == ParamOrder[i]
         IN  IF k \in DOMAIN args
             THEN (IF first THEN "" ELSE ", ")
                  \o "'" \o k \o "': '" \o args[k] \o "'"
                  \o ReprItems(args, i + 1, FALSE)
             ELSE ReprItems(args, i + 1, first)

ReprArgs(args) == "{" \o ReprItems(args, 1, TRUE) \o "}"

\* The tool calls a response of the tool-calling model may carry
RouterCalls ==
    { [name |-> "internet_search",    args |-> EmptyMap],
      [name |-> "ihos_doc_search",    args |-> ("query" :> "x")],
      [name |-> "list_meeting_rooms", args |-> EmptyMap] }

\* llm_tools.invoke(msgs) in router_node: raises, or an AIMessage with tool_calls
RouterOutcomes ==
    {[raised |-> TRUE, err |-> e, tool_calls |-> <<>>] : e \in LlmErrors}
    \cup {[raised |-> FALSE, err |-> "", tool_calls |-> tc] :
            tc \in UNION {[1..k -> RouterCalls] : k \in 0..MaxCalls}}

\* What a JSON text decodes to (json.loads): a dict, read through its keys
\* tool_name and args, or something that is no dict.  NullArgs stands for an
\* args key that is missing or null, None for such a tool_name.
NullArgs == ("<null>" :> "")

JsonDict(tool_name, args) ==
    [t |-> "dict", text |-> "", tool_name |-> tool_name, args |-> args]
JsonOther == [t |-> "other", text |-> "", tool_name |-> None, args |-> NullArgs]
PyNone == [t |-> "none", text |-> "", tool_name |-> None, args |-> NullArgs]
PyStr(text) == [t |-> "str", text |-> text, tool_name |-> None, args |-> NullArgs]

BookingJson == "{\"tool_name\": \"book_meeting_room\", \"args\": {\"room\": \"A\"}}"
NoNameJson == "{\"args\": {\"room\": \"A\"}}"
NoArgsJson == "{\"tool_name\": \"book_meeting_room\"}"
ListJson == "[1, 2]"
NotJson == "Xin chao"

\* json.loads(text): [ok, val]; ok = FALSE when it raises
JsonLoads(text) ==
    CASE text = BookingJson ->
           [ok |-> TRUE, val |-> JsonDict("book_meeting_room", ("room" :> "A"))]
      [] text = NoNameJson ->
           [ok |-> TRUE, val |-> JsonDict(None, ("room" :> "A"))]
      [] text = NoArgsJson ->
           [ok |-> TRUE, val |-> JsonDict("book_meeting_room", NullArgs)]
      [] text = ListJson -> [ok |-> TRUE, val |-> JsonOther]
      [] OTHER -> [ok |-> FALSE, val |-> PyNone]

\* bool(v) of such a value (every dict here has a key)
TruthyVal(v) ==
    CASE v.t = "none" -> FALSE
      [] v.t = "str" -> v.text # ""
      [] OTHER -> TRUE

\* d.get("args", {}) or {}
ArgsOrEmpty(d) == IF d.args = NullArgs \/ DOMAIN d.args = {} THEN EmptyMap ELSE d.args

\* The values the attributes structured_output, output and content of a
\* response may hold
AttrValues ==
    { PyNone, JsonOther, PyStr(BookingJson), PyStr(NotJson),
      JsonDict("book_meeting_room", ("room" :> "A")),
      JsonDict("book_meeting_room", EmptyMap),
      JsonDict("no_such_tool", NullArgs),
      JsonDict("", ("room" :> "A")) }

\* structured_llm.invoke(...) in llm_structured_node: no structured API on the
\* client, an exception, or a message
StructuredOutcomes ==
    {[kind |-> "no_api", err |-> "", structured_output |-> PyNone,
      output |-> PyNone, content |-> PyNone]}
    \cup {[kind |-> "raise", err |-> e, structured_output |-> PyNone,
           output |-> PyNone, content |-> PyNone] : e \in LlmErrors}
    \cup {[kind |-> "msg", err |-> "", structured_output |-> v,
           output |-> PyNone, content |-> PyNone] : v \in AttrValues}
    \cup {[kind |-> "msg", err |-> "", structured_output |-> PyNone,
           output |-> v, content |-> PyStr(NoNameJson)] :
             v \in {PyStr(NoArgsJson), JsonOther}}
    \cup {[kind |-> "msg", err |-> "", structured_output |-> PyNone,
           output |-> PyNone, content |-> v] :
             v \in {PyStr(BookingJson), PyStr(ListJson), PyStr(NotJson), JsonOther}}

\* llm_tools.invoke(...) of the plain fallback of llm_structured_node
FallbackOutcomes ==
    {[kind |-> "raise", err |-> e, content |-> PyNone] : e \in LlmErrors}
    \cup {[kind |-> "msg", err |-> "", content |-> v] :
            v \in {PyStr(BookingJson), PyStr(NoNameJson), PyStr(ListJson),
                   PyStr(NotJson), JsonOther}}

\* gemini_llm.invoke(...) in finalize_node; content None: the message has no
\* attribute content
FinalizeOutcomes ==
    {[raised |-> TRUE, err |-> e, content |-> None] : e \in LlmErrors}
    \cup {[raised |-> FALSE, err |-> "", content |-> c] :
            c \in {"Tra loi.", None}}

----------------------------------------------------------------------------
(* The nodes of the graph: src/agent/graph.py *)

\* trace.append(entry)
Traced(s, entry) == [s EXCEPT !.trace = Append(@, entry)]

\* graph.py:159
booking_triggers ==
    {"13t ph5ng", "13t cho t6i", "13t ph5ng gi7p", "13t h8 ph5ng", "13t cu8c h9p", "1o3t"}

\* dispatch_node with the query tested as typed, not lower-cased
dispatch_node_NoLower(s) ==
    LET query == Or(s.query, "")
    IN  IF \E tok \in booking_triggers : Contains(query, tok)
        THEN "llm_structured" ELSE "router"

\* dispatch_node: the node it hands the state to
dispatch_node(s) ==
    LET query == Lower(Or(s.query, ""))
    IN  IF \E tok \in booking_triggers : Contains(query, tok)
        THEN "llm_structured" ELSE "router"

\* router_node taking the last tool call of the response instead of the first
router_node_LastCall(s, avail, o) ==
    IF avail /\ ~o.raised /\ o.tool_calls # <<>>
    THEN LET pick == o.tool_calls[Len(o.tool_calls)]
         IN  Traced([s EXCEPT !.selected_tool = pick.name,
                              !.tool_args = Put(@, pick.name, pick.args)],
                    "LLM_TOOL_SELECT -> " \o pick.name \o " " \o ReprArgs(pick.args))
    ELSE Traced([s EXCEPT !.selected_tool = "echo"], "ROUTER_DEFAULT -> echo")

\* router_node, given whether the client exists and what its call does
router_node(s, avail, o) ==
    LET default ==
            Traced([s EXCEPT !.selected_tool = "echo"], "ROUTER_DEFAULT -> echo")
    IN  IF avail
        THEN IF ~o.raised
             THEN IF o.tool_calls # <<>>
                  THEN LET first == o.tool_calls[1]
                           tool_name == first.name
                           args == first.args
                       IN  Traced([s EXCEPT !.selected_tool = tool_name,
                                            !.tool_args = Put(@, tool_name, args)],
                                  "LLM_TOOL_SELECT -> " \o tool_name \o " "
                                      \o ReprArgs(args))
                  ELSE Traced([s EXCEPT !.selected_tool = "echo"],
                              "LLM_TOOL_SELECT_NONE -> echo")
             ELSE LET t == Traced(s, "LLM_TOOL_ROUTE_ERROR: " \o o.err)
                  IN  Traced([t EXCEPT !.selected_tool = "echo"],
                             "ROUTER_DEFAULT -> echo")
        ELSE default

\* The value `structured` holds at graph.py:114, from the message `m` of the
\* structured call (graph.py:101-113)
StructuredOf(m) ==
    LET attr == IF TruthyVal(m.structured_output) THEN m.structured_output
                ELSE m.output
        fromContent ==
            IF attr.t = "none"
            THEN IF m.content.t = "str"
                 THEN LET r == JsonLoads(m.content.text)
                      IN  IF r.ok THEN r.val ELSE PyNone
                 ELSE PyNone
            ELSE attr
    IN  IF fromContent.t = "str"
        THEN LET r == JsonLoads(fromContent.text)
             IN  IF r.ok THEN r.val ELSE PyNone
        ELSE fromContent

\* The value `parsed` holds at graph.py:134 (PyNone when there is none)
ParsedOf(m) ==
    IF m.content.t = "str"
    THEN LET r == JsonLoads(m.content.text)
         IN  IF r.ok THEN r.val ELSE PyNone
    ELSE PyNone

\* graph.py:114-117 and 134-137: the decoded value is a dict with a tool name
CarriesTool(d) == d.t = "dict" /\ Truthy(d.tool_name)

\* The structured call returns a message the node extracts a tool call from
Extracts(o1) == o1.kind = "msg" /\ CarriesTool(StructuredOf(o1))

\* graph.py:117-123 and 137-143: the state with the extracted call recorded
Extracted(s, d, label) ==
    LET tool_name == d.tool_name
        args == ArgsOrEmpty(d)
    IN  Traced([s EXCEPT !.tool_args = Put(@, tool_name, args),
                         !.selected_tool = tool_name],
               label \o " -> " \o tool_name \o " " \o ReprArgs(args))

\* llm_structured_node without its plain second call: whatever the structured
\* call does not extract goes to the router
llm_structured_node_NoSecondCall(s, avail, o1, o2) ==
    IF ~avail
    THEN [s |-> Traced(s, "LLM_STRUCTURED_NOT_AVAILABLE -> fallback router"),
          next |-> "router"]
    ELSE IF Extracts(o1)
    THEN [s |-> Extracted(s, StructuredOf(o1), "LLM_STRUCTURED"), next |-> "tool"]
    ELSE [s |-> Traced(s, "LLM_STRUCTURED_NO_RESULT -> fallback router"),
          next |-> "router"]

\* llm_structured_node, given whether the client exists and what the structured
\* call (o1) and the plain call (o2) do: [s, next], next the node that runs
\* next ("router": the node ends in `return self.router_node(state)`)
llm_structured_node(s, avail, o1, o2) ==
    IF ~avail
    THEN [s |-> Traced(s, "LLM_STRUCTURED_NOT_AVAILABLE -> fallback router"),
          next |-> "router"]
    ELSE LET d1 == IF o1.kind = "msg" THEN StructuredOf(o1) ELSE PyNone
             s1 == IF o1.kind = "raise"
                   THEN Traced(s, "LLM_STRUCTURED_ERROR: " \o o1.err)
                   ELSE s
             d2 == IF o2.kind = "msg" THEN ParsedOf(o2) ELSE PyNone
             s2 == IF o2.kind = "raise"
                   THEN Traced(s1, "LLM_STRUCTURED_FATAL: " \o o2.err)
                   ELSE s1
         IN  IF CarriesTool(d1)
             THEN [s |-> Extracted(s, d1, "LLM_STRUCTURED"), next |-> "tool"]
             ELSE IF CarriesTool(d2)
             THEN [s |-> Extracted(s1, d2, "LLM_STRUCTURED_FALLBACK"),
                   next |-> "tool"]
             ELSE [s |-> Traced(s2, "LLM_STRUCTURED_NO_RESULT -> fallback router"),
                   next |-> "router"]

\* ResolveArgs without the two fallbacks: the recorded arguments, or none
ResolveArgs_NoAutofill(tool_name, tool_args, query) ==
    Get(tool_args, tool_name, EmptyMap)

\* ResolveArgs that binds a sole parameter to the query whatever is recorded
ResolveArgs_AlwaysQuery(tool_name, tool_args, query) ==
    LET recorded == Get(tool_args, tool_name, EmptyMap)
        schema == ToolParams[tool_name]
        bySchema == IF Len(schema) = 1 THEN (schema[1] :> query) ELSE recorded
        name_map == [echo |-> "text", internet_search |-> "query"]
    IN  IF DOMAIN bySchema = {} /\ tool_name \in DOMAIN name_map
        THEN (name_map[tool_name] :> query) ELSE bySchema

\* ResolveArgs with the lookup table alone, without the sole-parameter rule
ResolveArgs_TableOnly(tool_name, tool_args, query) ==
    LET recorded == Get(tool_args, tool_name, EmptyMap)
        name_map == [echo |-> "text", internet_search |-> "query"]
    IN  IF DOMAIN recorded = {} /\ tool_name \in DOMAIN name_map
        THEN (name_map[tool_name] :> query) ELSE recorded

\* The argument set tool_node invokes a registered tool with (graph.py:202-217)
ResolveArgs(tool_name, tool_args, query) ==
    LET recorded == Get(tool_args, tool_name, EmptyMap)
        schema == ToolParams[tool_name]
        bySchema == IF DOMAIN recorded = {} /\ Len(schema) = 1
                    THEN (schema[1] :> query) ELSE recorded
        name_map == [echo |-> "text", internet_search |-> "query"]
    IN  IF DOMAIN bySchema = {} /\ tool_name \in DOMAIN name_map
        THEN (name_map[tool_name] :> query) ELSE bySchema

\* tool_node that logs nothing to the trace
tool_node_NoTrace(s, registry, o) ==
    LET tool_name == s.selected_tool
        registered == tool_name \in registry
        result == IF registered
                  THEN IF o.raised THEN "ToolError: " \o o.val ELSE o.val
                  ELSE IF tool_name = "echo" THEN "ECHO: " \o s.query
                       ELSE "Unknown tool: " \o Fmt(tool_name)
    IN  [s EXCEPT !.intermediate = Append(@, result), !.output = result]

\* tool_node that reports a raising tool by the bare message of the exception
tool_node_BareError(s, registry, o) ==
    LET tool_name == s.selected_tool
        registered == tool_name \in registry
        result == IF registered THEN o.val
                  ELSE IF tool_name = "echo" THEN "ECHO: " \o s.query
                       ELSE "Unknown tool: " \o Fmt(tool_name)
    IN  Traced([s EXCEPT !.intermediate = Append(@, result), !.output = result],
               "TOOL " \o Fmt(tool_name) \o ": " \o result)

\* tool_node that keeps the result out of `intermediate`
tool_node_NoIntermediate(s, registry, o) ==
    LET tool_name == s.selected_tool
        registered == tool_name \in registry
        result == IF registered
                  THEN IF o.raised THEN "ToolError: " \o o.val ELSE o.val
                  ELSE IF tool_name = "echo" THEN "ECHO: " \o s.query
                       ELSE "Unknown tool: " \o Fmt(tool_name)
    IN  Traced([s EXCEPT !.output = result],
               "TOOL " \o Fmt(tool_name) \o ": " \o result)

\* tool_node, given the registry and what the tool's invoke does
tool_node(s, registry, o) ==
    LET tool_name == s.selected_tool
        query == s.query
        registered == tool_name \in registry
        args_map == IF registered THEN ResolveArgs(tool_name, s.tool_args, query)
                    ELSE EmptyMap
        result == IF registered
                  THEN IF o.raised THEN "ToolError: " \o o.val ELSE o.val
                  ELSE IF tool_name = "echo" THEN "ECHO: " \o query
                       ELSE "Unknown tool: " \o Fmt(tool_name)
        s1 == IF registered /\ DOMAIN args_map # {}
              THEN [s EXCEPT !.tool_args = Put(@, tool_name, args_map)] ELSE s
    IN  Traced([s1 EXCEPT !.intermediate = Append(@, result), !.output = result],
               "TOOL " \o Fmt(tool_name) \o ": " \o result)

\* finalize_node reading the message's content with no default
finalize_node_NoDefault(s, avail, o) ==
    Traced([s EXCEPT !.output = IF avail /\ ~o.raised THEN o.content
                                ELSE Or(s.output, "(no output)")],
           "FINALIZE")

\* finalize_node answering the exception's message when the call raises
finalize_node_ErrorAsOutput(s, avail, o) ==
    Traced([s EXCEPT !.output = IF avail /\ o.raised THEN o.err
                                ELSE Or(s.output, "(no output)")],
           "FINALIZE")

\* finalize_node that ends without its FINALIZE entry
finalize_node_NoFinalizeEntry(s, avail, o) ==
    LET base_out == Or(s.output, "(no output)")
    IN  IF avail
        THEN IF o.raised
             THEN [Traced(s, "GEMINI_FALLBACK: " \o o.err) EXCEPT !.output = base_out]
             ELSE [s EXCEPT !.output =
                      IF o.content = None THEN base_out ELSE o.content]
        ELSE [s EXCEPT !.output = base_out]

\* finalize_node, given whether the client exists and what its call does
finalize_node(s, avail, o) ==
    LET base_out == Or(s.output, "(no output)")
    IN  IF avail
        THEN IF o.raised
             THEN Traced([Traced(s, "GEMINI_FALLBACK: " \o o.err)
                             EXCEPT !.output = base_out], "FINALIZE")
             ELSE Traced([s EXCEPT !.output =
                             IF o.content = None THEN base_out ELSE o.content],
                         "FINALIZE")
        ELSE Traced([s EXCEPT !.output = base_out], "FINALIZE")

----------------------------------------------------------------------------
(* One request through the compiled graph: dispatch -> tool -> finalize -> END
   (graph.py:270-283), run by invoke_agent (run.py:14-32).  dispatch_node
   calls llm_structured_node or router_node, and llm_structured_node calls
   router_node when it extracts nothing; each call is a step here. *)

NoCall == [invoked |-> FALSE, name |-> None, args |-> EmptyMap,
           raised |-> FALSE, val |-> ""]

NoLlmCalls == [structured |-> <<>>, fallback |-> <<>>, router |-> <<>>,
               finalize |-> <<>>]

\* _split_text is not running
SplitIdle ==
    /\ splitArgs = [text |-> "", chunk_size |-> 0, overlap |-> 0]
    /\ chunk_size = 0
    /\ overlap = 0
    /\ words = <<>>
    /\ chunks = <<>>
    /\ start = 0
    /\ end = 0
    /\ spl = "idle"

\* no booking tool has run and the Mongo collections are empty
NoBookCall == [op |-> "none"]

BookIdle ==
    /\ meeting_rooms = {}
    /\ schedule_booking = <<>>
    /\ bookLog = NoBookCall

\* no thread runs insert_embeddings and the store holds no collection
MilvusIdle ==
    /\ collections = EmptyMap
    /\ migrationAttempted = FALSE
    /\ thr = <<>>

\* no call of load_collection or of a similarity query is in flight
NoQuery == [fn |-> "none"]

QueryIdle == kq = NoQuery

\* no call of index_text_file is in flight
NoIngest == [pc |-> "none"]

IngestIdle == ing = NoIngest

\* no pair of concurrent requests is running
NoPair == [instance |-> 0]

PairIdle == pair = NoPair

\* no thread is in get_client
NoClient == [client |-> "none"]

ClientIdle == gc = NoClient

\* no request of the streaming endpoint is running
NoEndpoint == [pc |-> "none"]

EndpointIdle == ep = NoEndpoint

\* the components modelled on their own are at rest
RestIdle == PairIdle /\ ClientIdle /\ EndpointIdle

StreamIdle ==
    /\ emitted = <<>>
    /\ truth = ""
    /\ last = ""
    /\ pending = ""
    /\ yielded = ""
    /\ live = ""
    /\ base_output = ""
    /\ spc = "idle"

Init ==
    /\ tools \in Registries
    /\ llm \in BOOLEAN
    /\ \E query \in Queries : st = init_state(query)
    /\ pc = "dispatch"
    /\ visited = <<>>
    /\ toolCall = NoCall
    /\ llmCalls = NoLlmCalls
    /\ resp = <<>>
    /\ StreamIdle
    /\ SplitIdle
    /\ BookIdle
    /\ MilvusIdle
    /\ QueryIdle
    /\ IngestIdle
    /\ RestIdle

Dispatch ==
    /\ pc = "dispatch"
    /\ pc' = dispatch_node(st)
    /\ visited' = Append(visited, "dispatch")
    /\ UNCHANGED <<tools, llm, st, toolCall, llmCalls, resp>>
    /\ UNCHANGED notAgentVars

LlmStructured ==
    /\ pc = "llm_structured"
    /\ \E o1 \in StructuredOutcomes, o2 \in FallbackOutcomes :
         LET r == llm_structured_node(st, llm, o1, o2)
         IN  /\ st' = r.s
             /\ pc' = r.next
             /\ llmCalls' =
                  [llmCalls EXCEPT
                     !.structured = IF llm THEN <<o1>> ELSE <<>>,
                     !.fallback = IF llm /\ ~Extracts(o1) THEN <<o2>> ELSE <<>>]
    /\ visited' = Append(visited, "llm_structured")
    /\ UNCHANGED <<tools, llm, toolCall, resp>>
    /\ UNCHANGED notAgentVars

Router ==
    /\ pc = "router"
    /\ \E o \in RouterOutcomes :
         /\ st' = router_node(st, llm, o)
         /\ llmCalls' = [llmCalls EXCEPT !.router = IF llm THEN <<o>> ELSE <<>>]
    /\ pc' = "tool"
    /\ visited' = Append(visited, "router")
    /\ UNCHANGED <<tools, llm, toolCall, resp>>
    /\ UNCHANGED notAgentVars

Tool ==
    /\ pc = "tool"
    /\ LET tool_name == st.selected_tool
           registered == tool_name \in tools
           args_map == IF registered
                       THEN ResolveArgs(tool_name, st.tool_args, st.query)
                       ELSE EmptyMap
       IN  \E o \in (IF registered THEN ToolInvoke(tool_name, args_map)
                     ELSE {[raised |-> FALSE, val |-> ""]}) :
             /\ st' = tool_node(st, tools, o)
             /\ toolCall' = [invoked |-> registered, name |-> tool_name,
                             args |-> args_map, raised |-> o.raised, val |-> o.val]
    /\ pc' = "finalize"
    /\ visited' = Append(visited, "tool")
    /\ UNCHANGED <<tools, llm, llmCalls, resp>>
    /\ UNCHANGED notAgentVars

Finalize ==
    /\ pc = "finalize"
    /\ \E o \in FinalizeOutcomes :
         /\ st' = finalize_node(st, llm, o)
         /\ llmCalls' = [llmCalls EXCEPT !.finalize = IF llm THEN <<o>> ELSE <<>>]
    /\ pc' = "end"
    /\ visited' = Append(visited, "finalize")
    /\ UNCHANGED <<tools, llm, toolCall, resp>>
    /\ UNCHANGED notAgentVars

\* invoke_agent after graph.invoke (run.py:20-32)
invoke_agent_result(s) ==
    LET tool == s.selected_tool
        tool_res_list ==
            IF Truthy(tool)
            THEN <<[tool_name |-> tool, output |-> s.output,
                    raw_args |-> Get(s.tool_args, tool, NullArgs)]>>
            ELSE <<>>
    IN  [ output        |-> s.output,
          trace         |-> s.trace,
          intermediate  |-> s.intermediate,
          selected_tool |-> s.selected_tool,
          tool_results  |-> tool_res_list ]

Return ==
    /\ pc = "end"
    /\ resp' = <<invoke_agent_result(st)>>
    /\ pc' = "done"
    /\ UNCHANGED <<tools, llm, st, visited, toolCall, llmCalls>>
    /\ UNCHANGED notAgentVars

Next ==
    \/ Dispatch
    \/ LlmStructured
    \/ Router
    \/ Tool
    \/ Finalize
    \/ Return

Spec == Init /\ [][Next]_vars

\* The graph runner runs a node whenever one is due.
FairSpec == Spec /\ WF_vars(Next)

----------------------------------------------------------------------------
(* stream_agent: src/inference/run.py:35-78.  The generator first runs
   invoke_agent (base_output is its output), then reads the model stream one
   chunk at a time and yields the characters of each delta one by one. *)

\* What the model generates between two chunks
Fragments == {"", "a", "b"}

\* result.get("output") or "" of the run that precedes the streaming
BaseOutputs == {"", "ok"}

AgentIdle ==
    /\ tools = ALL_TOOLS
    /\ st = init_state("")
    /\ pc = "idle"
    /\ visited = <<>>
    /\ toolCall = NoCall
    /\ llmCalls = NoLlmCalls
    /\ resp = <<>>

StreamInit ==
    /\ AgentIdle
    /\ llm \in BOOLEAN
    /\ base_output \in BaseOutputs
    /\ emitted = <<>>
    /\ truth = ""
    /\ last = ""
    /\ pending = ""
    /\ yielded = ""
    /\ live = ""
    /\ spc = "start"
    /\ SplitIdle
    /\ BookIdle
    /\ MilvusIdle
    /\ QueryIdle
    /\ IngestIdle
    /\ RestIdle

\* Delta without the prefix test: the whole content every time
Delta_Whole(full, prev) == full

\* run.py:64-68
Delta(full, prev) ==
    IF StartsWith(full, prev) THEN SubSeq(full, Len(prev) + 1, Len(full)) ELSE full

\* run.py:51: the model stream is read only when the client exists
StreamStart ==
    /\ spc = "start"
    /\ IF llm
       THEN spc' = "stream" /\ pending' = pending
       ELSE spc' = "fallback" /\ pending' = base_output
    /\ UNCHANGED <<emitted, truth, last, yielded, live, base_output>>
    /\ UNCHANGED notStreamVars

\* run.py:59-69: the next chunk of llm.stream.  The model has generated `f`
\* more; the chunk carries everything generated so far ("full"), only `f`
\* ("frag"), or no content at all ("none").
StreamChunk ==
    /\ spc = "stream"
    /\ pending = ""
    /\ Len(emitted) < MaxEmissions
    /\ \E f \in Fragments, mode \in {"full", "frag", "none"} :
         LET full == CASE mode = "full" -> truth \o f
                       [] mode = "frag" -> f
                       [] OTHER -> None
         IN  /\ truth' = IF mode = "none" THEN truth ELSE truth \o f
             /\ emitted' = Append(emitted, full)
             /\ IF ~Truthy(full)
                THEN UNCHANGED <<last, pending>>
                ELSE /\ pending' = Delta(full, last)
                     /\ last' = full
    /\ UNCHANGED <<yielded, live, base_output, spc>>
    /\ UNCHANGED notStreamVars

\* run.py:70-71 and 77-78: `yield ch`
Yield ==
    /\ spc \in {"stream", "fallback"}
    /\ pending # ""
    /\ yielded' = yielded \o SubSeq(pending, 1, 1)
    /\ live' = IF spc = "stream" THEN live \o SubSeq(pending, 1, 1) ELSE live
    /\ pending' = SubSeq(pending, 2, Len(pending))
    /\ UNCHANGED <<emitted, truth, last, base_output, spc>>
    /\ UNCHANGED notStreamVars

\* run.py:72: the stream is exhausted, `return`
StreamReturn ==
    /\ spc = "stream"
    /\ pending = ""
    /\ spc' = "returned"
    /\ UNCHANGED <<emitted, truth, last, pending, yielded, live, base_output>>
    /\ UNCHANGED notStreamVars

\* run.py:73-77: llm.stream, or reading its next chunk, raises; the handler
\* passes and the fallback loop over base_output starts
StreamRaise ==
    /\ spc = "stream"
    /\ pending = ""
    /\ spc' = "fallback"
    /\ pending' = base_output
    /\ UNCHANGED <<emitted, truth, last, yielded, live, base_output>>
    /\ UNCHANGED notStreamVars

\* run.py:77-78: the fallback loop ends, and the generator with it
FallbackEnd ==
    /\ spc = "fallback"
    /\ pending = ""
    /\ spc' = "exhausted"
    /\ UNCHANGED <<emitted, truth, last, pending, yielded, live, base_output>>
    /\ UNCHANGED notStreamVars

StreamNext ==
    \/ StreamStart
    \/ StreamChunk
    \/ Yield
    \/ StreamReturn
    \/ StreamRaise
    \/ FallbackEnd

SpecStream == StreamInit /\ [][StreamNext]_vars

----------------------------------------------------------------------------
(* The text chunker: src/services/milvus/milvus_repo.py:388-418, followed
   one loop iteration at a time *)

\* milvus_repo.py:398: the chunk size that replaces a chunk_size <= 0
DefaultChunkSize == 800

Min(a, b) == IF a <= b THEN a ELSE b

\* the characters a text is made of; " " is the whitespace
TextChars == {"a", "b", " "}
Whitespace == {" "}

RECURSIVE Strings(_)
Strings(len) ==
    IF len = 0 THEN {""}
    ELSE LET shorter == Strings(len - 1)
         IN  shorter \cup {s \o c : s \in shorter, c \in TextChars}

Texts == Strings(MaxText)
ChunkSizes == 0..MaxChunkSize
Overlaps == (-1)..MaxOverlap

\* str.split() read from position i on: `cur` is the word being read, `acc`
\* the words read so far
RECURSIVE SplitFrom(_, _, _, _)
SplitFrom(s, i, cur, acc) ==
    IF i > Len(s)
    THEN IF cur = "" THEN acc ELSE Append(acc, cur)
    ELSE IF SubSeq(s, i, i) \in Whitespace
         THEN IF cur = ""
              THEN SplitFrom(s, i + 1, "", acc)
              ELSE SplitFrom(s, i + 1, "", Append(acc, cur))
         ELSE SplitFrom(s, i + 1, cur \o SubSeq(s, i, i), acc)

\* text.split(): the maximal runs of non-whitespace characters, in order
Split(s) == SplitFrom(s, 1, "", <<>>)

\* sep.join(ws) from the i-th word on
RECURSIVE JoinFrom(_, _, _)
JoinFrom(ws, i, sep) ==
    IF i > Len(ws) THEN ""
    ELSE (IF i > 1 THEN sep ELSE "") \o ws[i] \o JoinFrom(ws, i + 1, sep)

\* join that leaves the separator out
Join_NoSeparator(ws, sep) == JoinFrom(ws, 1, "")

\* sep.join(ws)
Join(ws, sep) == JoinFrom(ws, 1, sep)

\* words[lo:hi] for 0 <= lo
Slice(ws, lo, hi) == SubSeq(ws, lo + 1, Min(hi, Len(ws)))

\* milvus_repo.py:415-417: where the next window starts
NextStart(window_end, ov) ==
    LET moved == IF ov > 0 THEN window_end - ov ELSE window_end
    IN  IF moved < 0 THEN 0 ELSE moved

SplitInit ==
    /\ AgentIdle
    /\ llm = FALSE
    /\ StreamIdle
    /\ BookIdle
    /\ MilvusIdle
    /\ QueryIdle
    /\ IngestIdle
    /\ RestIdle
    /\ splitArgs \in [text : Texts, chunk_size : ChunkSizes, overlap : Overlaps]
    /\ chunk_size = splitArgs.chunk_size
    /\ overlap = splitArgs.overlap
    /\ words = <<>>
    /\ chunks = <<>>
    /\ start = 0
    /\ end = 0
    /\ spl = "entry"

\* milvus_repo.py:397-406: the arguments are normalised, the text is split
\* and an empty word list returns []
SplitEnter ==
    /\ spl = "entry"
    /\ chunk_size' = IF chunk_size <= 0 THEN DefaultChunkSize ELSE chunk_size
    /\ overlap' = IF overlap < 0 THEN 0 ELSE overlap
    /\ words' = Split(splitArgs.text)
    /\ spl' = IF words' = <<>> THEN "returned" ELSE "loop"
    /\ UNCHANGED <<splitArgs, chunks, start, end>>
    /\ UNCHANGED notSplitVars

\* milvus_repo.py:407-417: one iteration of `while start < n`
SplitIterate ==
    /\ spl = "loop"
    /\ start < Len(words)
    /\ Len(chunks) < MaxChunks
    /\ LET n == Len(words)
           window_end == Min(start + chunk_size, n)
           chunk_words == Slice(words, start, window_end)
           next_start == NextStart(window_end, overlap)
       IN  /\ end' = window_end
           /\ chunks' = IF chunk_words # <<>>
                        THEN Append(chunks, Join(chunk_words, " "))
                        ELSE chunks
           /\ IF window_end = n
              THEN spl' = "returned" /\ start' = start
              ELSE /\ start' = next_start
                   /\ spl' = IF next_start < n THEN "loop" ELSE "returned"
    /\ UNCHANGED <<splitArgs, chunk_size, overlap, words>>
    /\ UNCHANGED notSplitVars

SplitNext ==
    \/ SplitEnter
    \/ SplitIterate

SpecSplit == SplitInit /\ [][SplitNext]_vars

----------------------------------------------------------------------------
(* The booking tools: src/tools/registry.py:263-331, over the Mongo
   collections meeting_rooms and schedule_booking.  A document is a record;
   a field a document does not have is a field the record does not have. *)

Rooms == {"A", "B"}
Dates == {"01-09-2023", "02-09-2023"}
\* zero-padded HH:MM strings
Times == {"09:00", "09:30", "09:45", "10:00"}

\* the code point of a character of a time string
CharCode ==
    ("0" :> 48) @@ ("1" :> 49) @@ ("2" :> 50) @@ ("3" :> 51) @@ ("4" :> 52) @@
    ("5" :> 53) @@ ("6" :> 54) @@ ("7" :> 55) @@ ("8" :> 56) @@ ("9" :> 57) @@
    (":" :> 58)

\* a < b on two str, as Mongo's $lt compares strings: by code point, a proper
\* prefix first
StrLt(a, b) ==
    \E i \in 1..Len(b) :
        /\ i - 1 <= Len(a)
        /\ SubSeq(a, 1, i - 1) = SubSeq(b, 1, i - 1)
        /\ \/ i > Len(a)
           \/ CharCode[SubSeq(a, i, i)] < CharCode[SubSeq(b, i, i)]

\* a <= b on two str
StrLe(a, b) == a = b \/ StrLt(a, b)

\* doc has the field
Has(doc, field) == field \in DOMAIN doc

\* the filter of registry.py:276-283 without its third clause
Matches_TwoClauses(doc, time_start, time_end, booking_date) ==
    /\ Has(doc, "booking_date")
    /\ doc.booking_date = booking_date
    /\ \/ /\ Has(doc, "start_time")
          /\ StrLt(doc.start_time, time_end)
          /\ StrLe(time_start, doc.start_time)
       \/ /\ Has(doc, "end_time")
          /\ StrLt(time_start, doc.end_time)
          /\ StrLe(doc.end_time, time_end)

\* the filter of registry.py:276-283 with `<=` where the first clause has `<`
Matches_Inclusive(doc, time_start, time_end, booking_date) ==
    /\ Has(doc, "booking_date")
    /\ doc.booking_date = booking_date
    /\ \/ /\ Has(doc, "start_time")
          /\ StrLe(doc.start_time, time_end)
          /\ StrLe(time_start, doc.start_time)
       \/ /\ Has(doc, "end_time")
          /\ StrLt(time_start, doc.end_time)
          /\ StrLe(doc.end_time, time_end)
       \/ /\ Has(doc, "start_time")
          /\ Has(doc, "end_time")
          /\ StrLe(doc.start_time, time_start)
          /\ StrLe(time_end, doc.end_time)

\* registry.py:276-283: the document satisfies the filter of the conflict
\* query; a comparison on a field the document does not have is false
Matches(doc, time_start, time_end, booking_date) ==
    /\ Has(doc, "booking_date")
    /\ doc.booking_date = booking_date
    /\ \/ /\ Has(doc, "start_time")
          /\ StrLt(doc.start_time, time_end)
          /\ StrLe(time_start, doc.start_time)
       \/ /\ Has(doc, "end_time")
          /\ StrLt(time_start, doc.end_time)
          /\ StrLe(doc.end_time, time_end)
       \/ /\ Has(doc, "start_time")
          /\ Has(doc, "end_time")
          /\ StrLe(doc.start_time, time_start)
          /\ StrLe(time_end, doc.end_time)

\* mongo_repo.find_many(col, query): the documents of the collection that
\* satisfy the filter, in their order
FindBookings(col, time_start, time_end, booking_date) ==
    LET Hit(doc) == Matches(doc, time_start, time_end, booking_date)
    IN  SelectSeq(col, Hit)

\* r.get("is_available", True)
IsAvailable(r) == IF Has(r, "is_available") THEN r.is_available ELSE TRUE

\* available_meeting_rooms that does not look at is_available
available_meeting_rooms_NoFlag(rooms, col, time_start, time_end, booking_date) ==
    LET bookings == FindBookings(col, time_start, time_end, booking_date)
        booked_names == {bookings[i].room_name : i \in 1..Len(bookings)}
        Free(r) == r.room_name \notin booked_names
        available_rooms == SelectSeq(rooms, Free)
    IN  [bookings |-> bookings,
         count |-> Len(available_rooms),
         items |-> [i \in 1..Len(available_rooms) |-> available_rooms[i].room_name]]

\* registry.py:273-298: what the conflict query found, and the `count` and the
\* room_name of each of the `items` of the answer (the other attributes of
\* an item are copied from the room document)
available_meeting_rooms(rooms, col, time_start, time_end, booking_date) ==
    LET bookings == FindBookings(col, time_start, time_end, booking_date)
        booked_names == {bookings[i].room_name : i \in 1..Len(bookings)}
        Free(r) == IsAvailable(r) /\ r.room_name \notin booked_names
        available_rooms == SelectSeq(rooms, Free)
    IN  [bookings |-> bookings,
         count |-> Len(available_rooms),
         items |-> [i \in 1..Len(available_rooms) |-> available_rooms[i].room_name]]

\* registry.py:317-324: booking_info
booking_info(room_name, time_start, time_end, booking_date) ==
    [employee_name |-> "An", room_name |-> room_name, time_start |-> time_start,
     time_end |-> time_end, booking_date |-> booking_date, purpose |-> ""]

\* the intervals book_meeting_room is asked for
BookIntervals == {<<"09:00", "10:00">>}

\* the intervals available_meeting_rooms is asked about: every interval with
\* start < end, one that is empty and one that is reversed
QueryIntervals ==
    {tt \in Times \X Times : StrLt(tt[1], tt[2])}
        \cup {<<"09:30", "09:30">>, <<"10:00", "09:00">>}

\* a schedule document that was in the collection before: the fields the
\* conflict query reads
SeedDocs ==
    { [room_name |-> "A", booking_date |-> "01-09-2023",
       start_time |-> iv[1], end_time |-> iv[2]] :
        iv \in {tt \in Times \X Times : StrLt(tt[1], tt[2])} }

\* the documents of meeting_rooms: room A with is_available true, false or
\* missing, and room B
RoomSeqs ==
    { <<[room_name |-> "A"], [room_name |-> "B", is_available |-> TRUE]>>,
      <<[room_name |-> "A", is_available |-> TRUE], [room_name |-> "B", is_available |-> TRUE]>>,
      <<[room_name |-> "A", is_available |-> FALSE], [room_name |-> "B", is_available |-> TRUE]>> }

BookInit ==
    /\ AgentIdle
    /\ llm = FALSE
    /\ StreamIdle
    /\ SplitIdle
    /\ MilvusIdle
    /\ QueryIdle
    /\ IngestIdle
    /\ RestIdle
    /\ meeting_rooms \in RoomSeqs
    /\ schedule_booking \in {<<>>} \cup {<<d>> : d \in SeedDocs}
    /\ bookLog = NoBookCall

\* registry.py:300-331: book_meeting_room; insert_one stores the document or
\* raises
BookMeetingRoom ==
    /\ Len(schedule_booking) < MaxStored
    /\ \E room_name \in Rooms, iv \in BookIntervals, booking_date \in Dates,
          inserted \in BOOLEAN :
         LET info == booking_info(room_name, iv[1], iv[2], booking_date)
         IN  /\ schedule_booking' = IF inserted THEN Append(schedule_booking, info)
                                    ELSE schedule_booking
             /\ bookLog' = [op |-> "book", success |-> inserted]
    /\ UNCHANGED meeting_rooms
    /\ UNCHANGED notBookVars

\* registry.py:263-298: available_meeting_rooms
AvailableMeetingRooms ==
    /\ \E iv \in QueryIntervals, booking_date \in Dates :
         bookLog' = [op |-> "available", time_start |-> iv[1],
                     time_end |-> iv[2], booking_date |-> booking_date,
                     result |-> available_meeting_rooms(meeting_rooms, schedule_booking,
                                                        iv[1], iv[2], booking_date)]
    /\ UNCHANGED <<meeting_rooms, schedule_booking>>
    /\ UNCHANGED notBookVars

BookNext ==
    \/ BookMeetingRoom
    \/ AvailableMeetingRooms

SpecBook == BookInit /\ [][BookNext]_vars

----------------------------------------------------------------------------
(* insert_embeddings and its migration: src/services/milvus/milvus_repo.py:
   132-162, run by several threads against one store.  Every call of the
   store client is one step of the thread that makes it. *)

\* milvus_repo.py:151: the dimension used when there is no record
DefaultDim == 768

\* get_default_collection_name(): the value of MILVUS_COLLECTION
DefaultCollection == "hospitals"
\* the text-chunk collection of ensure_text_collection (milvus_repo.py:364)
TextCollection == "ihos_documents"
CollNames == {DefaultCollection, TextCollection}

Threads == 1..MaxThreads

\* a collection the store does not hold
Absent == [exists |-> FALSE, schema |-> "none", dim |-> 0, rows |-> <<>>]
\* a collection whose primary key is not the auto-generated `id`
Legacy(d) ==
    [exists |-> TRUE, schema |-> "legacy", dim |-> d, rows |-> <<[embedding |-> d]>>]
\* the collection ensure_collection creates (milvus_repo.py:108-129)
HospitalSchema(d) == [exists |-> TRUE, schema |-> "hospital", dim |-> d, rows |-> <<>>]
\* the collection ensure_text_collection creates (milvus_repo.py:376-384)
TextSchema(d) == [exists |-> TRUE, schema |-> "text", dim |-> d, rows |-> <<>>]

\* the records of a call; a record is a dict, its embedding given by its length
Datas == {<<>>, <<[embedding |-> 3, id |-> 7, primary_key |-> 9]>>}

\* r.pop(k, None) on a dict: the dict afterwards
Pop(m, k) == [x \in (DOMAIN m) \ {k} |-> m[x]]

\* the copies made of the caller's records, with only `id` removed
Stripped_IdOnly(records) ==
    [i \in DOMAIN records |-> Pop(records[i], "id")]

\* milvus_repo.py:139-143: `data`, a copy of every record without the keys id
\* and primary_key
Stripped(records) ==
    [i \in DOMAIN records |-> Pop(Pop(records[i], "id"), "primary_key")]

\* milvus_repo.py:151: emb_len
EmbLen(data) == IF data # <<>> THEN Get(data[1], "embedding", 0) ELSE DefaultDim

\* what client.insert(collection_name, data) does on a collection in state c:
\* "ok", or the kind of the exception
InsertOutcomes(c, data) ==
    IF ~c.exists THEN {"collection not found"}
    ELSE IF c.schema = "legacy" THEN {"primary_key", "unavailable"}
    ELSE IF \E i \in 1..Len(data) : Get(data[i], "embedding", 0) # c.dim
         THEN {"dimension mismatch"}
    ELSE {"ok", "unavailable"}

\* milvus_repo.py:156 with 97: ensure_collection(dim=emb_len, force=True) is
\* called without a name, so it works on the default collection
EnsureTarget(coll_name) == DefaultCollection

IdleThread ==
    [pc |-> "idle", coll_name |-> None, records |-> <<>>, data |-> <<>>, ops |-> <<>>]

MilvusInit ==
    /\ AgentIdle
    /\ llm = FALSE
    /\ StreamIdle
    /\ SplitIdle
    /\ BookIdle
    /\ QueryIdle
    /\ IngestIdle
    /\ RestIdle
    /\ collections \in [CollNames -> {Absent, Legacy(2), HospitalSchema(2)}]
    /\ collections[TextCollection].schema # "hospital"
    /\ migrationAttempted = FALSE
    /\ thr = [t \in Threads |-> IdleThread]

\* the store operations of a thread, with one more
Logged(ops, op, coll, ok) ==
    Append(ops, [op |-> op, coll |-> coll, ok |-> ok,
                 err |-> IF ok THEN "ok" ELSE "failed"])

\* milvus_repo.py:137-143: the call, up to the first insert
InsertCall(t) ==
    /\ thr[t].pc = "idle"
    /\ \E collection \in {None, TextCollection}, records \in Datas :
         thr' = [thr EXCEPT ![t] =
                    [pc |-> "insert",
                     coll_name |-> IF collection # None THEN collection
                                   ELSE DefaultCollection,
                     records |-> records,
                     data |-> Stripped(records),
                     ops |-> <<>>]]
    /\ UNCHANGED <<collections, migrationAttempted>>
    /\ UNCHANGED notMilvusVars

\* milvus_repo.py:144-147 (first attempt) and 157 (retry): client.insert
StoreInsert(t) ==
    /\ thr[t].pc \in {"insert", "retry"}
    /\ LET c == thr[t].coll_name
       IN  \E o \in InsertOutcomes(collections[c], thr[t].data) :
             /\ collections' = IF o = "ok"
                               THEN [collections EXCEPT ![c].rows = @ \o thr[t].data]
                               ELSE collections
             /\ thr' = [thr EXCEPT
                          ![t].ops = Append(@, [op |-> "insert", coll |-> c,
                                                ok |-> o = "ok", err |-> o]),
                          ![t].pc =
                             IF o = "ok" THEN "returned"
                             ELSE IF o = "primary_key" /\ thr[t].pc = "insert" THEN "check"
                             ELSE "raised"]
    /\ UNCHANGED migrationAttempted
    /\ UNCHANGED notMilvusVars

\* a test of line 149 that ignores _MIGRATION_ATTEMPTED
CheckFlag_IgnoreFlag(t) ==
    /\ thr[t].pc = "check"
    /\ thr' = [thr EXCEPT ![t].pc = "set"]
    /\ UNCHANGED <<collections, migrationAttempted>>
    /\ UNCHANGED notMilvusVars

\* milvus_repo.py:149: `"primary_key" in msg and not _MIGRATION_ATTEMPTED`
CheckFlag(t) ==
    /\ thr[t].pc = "check"
    /\ thr' = [thr EXCEPT ![t].pc = IF migrationAttempted THEN "raised" ELSE "set"]
    /\ UNCHANGED <<collections, migrationAttempted>>
    /\ UNCHANGED notMilvusVars

\* a migration path that leaves the flag as it finds it
SetFlag_Unset(t) ==
    /\ thr[t].pc = "set"
    /\ thr' = [thr EXCEPT ![t].pc = "drop"]
    /\ UNCHANGED <<collections, migrationAttempted>>
    /\ UNCHANGED notMilvusVars

\* milvus_repo.py:150: `_MIGRATION_ATTEMPTED = True`
SetFlag(t) ==
    /\ thr[t].pc = "set"
    /\ migrationAttempted' = TRUE
    /\ thr' = [thr EXCEPT ![t].pc = "drop"]
    /\ UNCHANGED collections
    /\ UNCHANGED notMilvusVars

\* milvus_repo.py:152-155: client.drop_collection(coll_name), its failure
\* swallowed
DropCollection(t) ==
    /\ thr[t].pc = "drop"
    /\ LET c == thr[t].coll_name
       IN  \E ok \in BOOLEAN :
             /\ collections' = IF ok THEN [collections EXCEPT ![c] = Absent]
                               ELSE collections
             /\ thr' = [thr EXCEPT ![t].ops = Logged(@, "drop", c, ok),
                                   ![t].pc = "ensure"]
    /\ UNCHANGED migrationAttempted
    /\ UNCHANGED notMilvusVars

\* milvus_repo.py:156 with 96-129: ensure_collection(dim=emb_len, force=True):
\* has_collection, the forced drop (its failure swallowed), and
\* create_collection, whose failure leaves insert_embeddings
EnsureCollection(t) ==
    /\ thr[t].pc = "ensure"
    /\ LET c == EnsureTarget(thr[t].coll_name)
           dim == EmbLen(thr[t].data)
       IN  IF collections[c].exists
           THEN \E dropped \in BOOLEAN :
                  IF dropped
                  THEN \E created \in BOOLEAN :
                         /\ collections' = [collections EXCEPT ![c] =
                                              IF created THEN HospitalSchema(dim) ELSE Absent]
                         /\ thr' = [thr EXCEPT
                                      ![t].ops = Logged(Logged(@, "drop", c, TRUE),
                                                        "create", c, created),
                                      ![t].pc = IF created THEN "retry" ELSE "raised"]
                  ELSE /\ collections' = collections
                       /\ thr' = [thr EXCEPT ![t].ops = Logged(@, "drop", c, FALSE),
                                             ![t].pc = "retry"]
           ELSE \E created \in BOOLEAN :
                  /\ collections' = IF created
                                    THEN [collections EXCEPT ![c] = HospitalSchema(dim)]
                                    ELSE collections
                  /\ thr' = [thr EXCEPT ![t].ops = Logged(@, "create", c, created),
                                        ![t].pc = IF created THEN "retry" ELSE "raised"]
    /\ UNCHANGED migrationAttempted
    /\ UNCHANGED notMilvusVars

MilvusNext ==
    \E t \in Threads :
        \/ InsertCall(t)
        \/ StoreInsert(t)
        \/ CheckFlag(t)
        \/ SetFlag(t)
        \/ DropCollection(t)
        \/ EnsureCollection(t)

SpecMilvus == MilvusInit /\ [][MilvusNext]_vars

----------------------------------------------------------------------------
(* Properties of the orchestration state machine *)

InSeq(x, seq) == \E i \in 1..Len(seq) : seq[i] = x

Ran(node) == InSeq(node, visited)

\* The query carries a booking trigger phrase (spec 4.1, Dispatch)
HasBookingTrigger(query) ==
    \E tok \in booking_triggers : Contains(Lower(query), tok)

\* The finalize call of the model raised
FinalizeRaised == llmCalls.finalize # <<>> /\ llmCalls.finalize[1].raised

C2_Original ==
    (pc = "done" /\ ~llm) =>
        /\ st.selected_tool = "echo"
        /\ st.output = "ECHO: " \o st.query

\* C2, amended: with the model absent, the request ends with echo selected;
\* output is "ECHO: " followed by the query for every non-empty query, and for
\* the empty query it is what the registered echo tool answers to an empty
\* text, "ECHO: (empty)".
C2_EchoWhenModelAbsent ==
    (pc = "done" /\ ~llm) =>
        /\ st.selected_tool = "echo"
        /\ st.output = IF st.query = "" /\ "echo" \in tools
                       THEN "ECHO: (empty)"
                       ELSE "ECHO: " \o st.query
        /\ resp[1].output = st.output
        /\ resp[1].selected_tool = "echo"

\* C2, witness: a booking query answered by the registered echo tool, the
\* model being absent.
C2_Witness ==
    /\ pc = "done"
    /\ ~llm
    /\ "echo" \in tools
    /\ st.query = "13t ph5ng"
    /\ st.output = "ECHO: 13t ph5ng"

\* C3: dispatch hands the request to the structured extraction exactly when
\* the lower-cased query contains a booking trigger phrase; otherwise it hands
\* it to the router and the structured extraction never runs.
C3_DispatchByTrigger ==
    LET hit == HasBookingTrigger(st.query)
    IN  /\ (pc \notin {"dispatch", "idle"} /\ Len(visited) = 1) =>
               pc = IF hit THEN "llm_structured" ELSE "router"
        /\ Len(visited) >= 2 =>
               visited[2] = IF hit THEN "llm_structured" ELSE "router"
        /\ ~hit => ~Ran("llm_structured")

\* C3, witness: a query that carries a trigger only once lower-cased went to
\* the structured extraction.
C3_Witness ==
    /\ st.query = "24T ph5ng"
    /\ Len(visited) >= 2
    /\ visited[2] = "llm_structured"

\* C4: every step leaves the trace it found as a prefix of the new trace, and
\* each stage that runs (structured extraction, router, tool, finalize) makes
\* it longer.
C4_TraceGrows ==
    [][ /\ IsPrefix(st.trace, st'.trace)
        /\ pc \in {"llm_structured", "router", "tool", "finalize"} =>
               Len(st'.trace) > Len(st.trace) ]_vars

\* C4, witness: a finished request whose trace holds the entries of every
\* stage: INIT, three of the extraction, two of the router, TOOL, two of
\* finalize.
C4_Witness ==
    /\ pc = "done"
    /\ Len(st.trace) = 9
    /\ st.trace[1] = "INIT: " \o st.query
    /\ st.trace[9] = "FINALIZE"

C6_Original ==
    (pc \in {"end", "done"} /\ (~llm \/ FinalizeRaised)) =>
        st.output = st.intermediate[1]

\* C6, amended: when the model is absent or its finalize call raises, output
\* after finalize is the tool's result unchanged for every non-empty result;
\* an empty result is replaced by "(no output)".
C6_FinalizePassThrough ==
    (pc \in {"end", "done"} /\ (~llm \/ FinalizeRaised)) =>
        st.output = IF st.intermediate[1] = "" THEN "(no output)"
                    ELSE st.intermediate[1]

\* C6, witness: the finalize call raised after a tool returned its document,
\* and output is that document.
C6_Witness ==
    /\ pc = "end"
    /\ FinalizeRaised
    /\ toolCall.invoked
    /\ ~toolCall.raised
    /\ toolCall.name = "ihos_doc_search"
    /\ st.output = toolCall.val

\* C7: the router selects from the model's response alone.  With one or more
\* tool calls it selects the name of the first and records that call's
\* arguments under that name, touching no other entry of tool_args; with no
\* call, no client or a raising call it selects echo and leaves tool_args as
\* it was.
C7_RouterTakesFirstCall ==
    [][ pc = "router" =>
          LET calls == IF llmCalls'.router # <<>> /\ ~llmCalls'.router[1].raised
                       THEN llmCalls'.router[1].tool_calls ELSE <<>>
          IN  IF calls # <<>>
              THEN /\ st'.selected_tool = calls[1].name
                   /\ DOMAIN st'.tool_args = DOMAIN st.tool_args \cup {calls[1].name}
                   /\ st'.tool_args[calls[1].name] = calls[1].args
                   /\ \A k \in DOMAIN st.tool_args \ {calls[1].name} :
                          st'.tool_args[k] = st.tool_args[k]
              ELSE /\ st'.selected_tool = "echo"
                   /\ st'.tool_args = st.tool_args ]_vars

\* C7, witness: the model returned two calls of different tools; the first is
\* selected and the second left no entry in tool_args.
C7_Witness ==
    /\ pc = "tool"
    /\ llmCalls.router # <<>>
    /\ Len(llmCalls.router[1].tool_calls) = 2
    /\ llmCalls.router[1].tool_calls[1].name = "ihos_doc_search"
    /\ llmCalls.router[1].tool_calls[2].name = "internet_search"
    /\ st.selected_tool = "ihos_doc_search"
    /\ st.tool_args = ("ihos_doc_search" :> ("query" :> "x"))

\* The extraction of the structured stage succeeded: the structured call, or
\* else the plain call, returned a message that decodes to a dict with a tool
\* name.  ExtractedDict is that dict.
ExtractionSucceeded(calls) ==
    /\ calls.structured # <<>>
    /\ \/ Extracts(calls.structured[1])
       \/ /\ calls.fallback # <<>>
          /\ calls.fallback[1].kind = "msg"
          /\ CarriesTool(ParsedOf(calls.fallback[1]))

ExtractedDict(calls) ==
    IF Extracts(calls.structured[1]) THEN StructuredOf(calls.structured[1])
    ELSE ParsedOf(calls.fallback[1])

\* C8: when the structured stage extracts nothing (no client, a raising call,
\* an answer that does not decode to a dict with a tool name) it appends a
\* trace entry saying so and the router runs next; when it extracts a call,
\* selected_tool is the extracted name, tool_args[name] the extracted args,
\* and the router does not run.
C8_StructuredExtractOrRoute ==
    /\ [][ pc = "llm_structured" =>
             IF ExtractionSucceeded(llmCalls')
             THEN LET d == ExtractedDict(llmCalls')
                  IN  /\ pc' = "tool"
                      /\ st'.selected_tool = d.tool_name
                      /\ st'.tool_args[d.tool_name] = ArgsOrEmpty(d)
             ELSE /\ pc' = "router"
                  /\ Len(st'.trace) > Len(st.trace)
                  /\ Last(st'.trace) \in
                       {"LLM_STRUCTURED_NOT_AVAILABLE -> fallback router",
                        "LLM_STRUCTURED_NO_RESULT -> fallback router"} ]_vars
    /\ [](Ran("llm_structured") =>
             (ExtractionSucceeded(llmCalls) <=> ~(Ran("router") \/ pc = "router")))

\* C8, witness: the structured call raised, the plain call returned the JSON
\* of a booking, and the request finished with that tool selected and the
\* router never run.
C8_Witness ==
    /\ pc = "done"
    /\ llmCalls.structured # <<>>
    /\ llmCalls.structured[1].kind = "raise"
    /\ llmCalls.fallback # <<>>
    /\ llmCalls.fallback[1].content = PyStr(BookingJson)
    /\ st.selected_tool = "book_meeting_room"
    /\ st.tool_args["book_meeting_room"] = ("room" :> "A")
    /\ ~Ran("router")

----------------------------------------------------------------------------
(* Properties of the streaming reconciler *)

\* Each chunk has a content and it extends the content of the chunk before
Cumulative(seq) ==
    \A i \in 1..Len(seq) :
        /\ seq[i] # None
        /\ i > 1 => StartsWith(seq[i], seq[i - 1])

\* C9: when every chunk's content extends the content of the chunk before it,
\* what the generator has yielded plus what is left of the current delta is
\* the content of the last chunk, and at the return of the generator the
\* characters yielded are exactly that content.
C9_CumulativeStream ==
    (emitted # <<>> /\ Cumulative(emitted)) =>
        /\ spc = "stream" => live \o pending = Last(emitted)
        /\ spc = "returned" => yielded = Last(emitted)

\* C9, witness: three cumulative chunks, the last repeating the second, read to
\* the end.
C9_Witness ==
    /\ spc = "returned"
    /\ emitted = <<"a", "ab", "ab">>
    /\ yielded = "ab"

\* C10 as claimed: whether a chunk carries everything generated so far or
\* only the new fragment, the characters yielded up to the return of the
\* generator are the generated text, each character once.
C10_Original == spc = "returned" => yielded = truth

\* C11 as claimed: the characters of the precomputed answer are yielded only
\* when no character of the model stream has been yielded before them.
C11_Original == Len(yielded) > Len(live) => live = ""

----------------------------------------------------------------------------
(* Properties of the text chunker *)

\* the call was made with arguments the chunker's contract admits
ChunkerContract == splitArgs.chunk_size >= 1 /\ splitArgs.overlap >= 0

\* the words of the k-th chunk
ChunkWords(k) == Split(chunks[k])

\* the words of the chunks from the k-th on, in order
RECURSIVE WordsFrom(_)
WordsFrom(k) ==
    IF k > Len(chunks) THEN <<>> ELSE ChunkWords(k) \o WordsFrom(k + 1)

\* C12 as claimed: for chunk_size >= 1 and overlap >= 0 the window end
\* strictly increases on each iteration of the loop (and so reaches the word
\* count after finitely many iterations).
C12_Original ==
    [][ (spl = "loop" /\ ChunkerContract) => end' > end ]_vars

\* C13: with overlap = 0 and chunk_size >= 1, at the return of the chunker the
\* words of the chunks, read in order, are the whitespace-separated words of
\* the text, each once; a text without a word gives no chunk.
C13_RoundTrip ==
    (spl = "returned" /\ splitArgs.overlap = 0 /\ splitArgs.chunk_size >= 1) =>
        /\ WordsFrom(1) = Split(splitArgs.text)
        /\ Join(chunks, " ") = Join(Split(splitArgs.text), " ")
        /\ \A k \in 1..Len(chunks) :
             /\ ChunkWords(k) # <<>>
             /\ Len(ChunkWords(k)) <= splitArgs.chunk_size
             /\ k < Len(chunks) => Len(ChunkWords(k)) = splitArgs.chunk_size
        /\ Split(splitArgs.text) = <<>> => chunks = <<>>

\* C13, witness: "a b a" cut into windows of two words without overlap.
C13_Witness ==
    /\ spl = "returned"
    /\ splitArgs = [text |-> "a b a", chunk_size |-> 2, overlap |-> 0]
    /\ chunks = <<"a b", "a">>

\* the last m words of ws
LastWords(ws, m) == SubSeq(ws, Len(ws) - m + 1, Len(ws))

\* the chunks from the k-th on, each without its first m words
RECURSIVE FreshWordsFrom(_, _)
FreshWordsFrom(k, m) ==
    IF k > Len(chunks) THEN <<>>
    ELSE SubSeq(ChunkWords(k), m + 1, Len(ChunkWords(k))) \o FreshWordsFrom(k + 1, m)

\* C14 as claimed: for overlap > 0 (and chunk_size >= 1) every chunk after the
\* first begins with exactly the last `overlap` words of the chunk before it.
C14_Original ==
    (splitArgs.overlap > 0 /\ splitArgs.chunk_size >= 1) =>
        \A k \in 2..Len(chunks) :
            /\ Len(ChunkWords(k - 1)) >= overlap
            /\ Len(ChunkWords(k)) >= overlap
            /\ SubSeq(ChunkWords(k), 1, overlap) = LastWords(ChunkWords(k - 1), overlap)

\* C14, what does hold: for 0 < overlap < chunk_size every chunk after the first begins with
\* exactly the last `overlap` words of the chunk before it and the words after
\* them continue the text with no word skipped or repeated; for every
\* overlap > 0 the window after a window ending at `end` starts at
\* max(0, end - overlap), which for overlap >= chunk_size is not after the
\* start of the window before.
C14_OverlapWindows ==
    /\ [][ (spl = "loop" /\ spl' = "loop" /\ ChunkerContract /\ overlap > 0) =>
             /\ start' = (IF end' - overlap < 0 THEN 0 ELSE end' - overlap)
             /\ overlap >= chunk_size => start' <= start ]_vars
    /\ [](( spl \in {"loop", "returned"} /\ splitArgs.chunk_size >= 1
            /\ splitArgs.overlap > 0 /\ splitArgs.overlap < splitArgs.chunk_size ) =>
             /\ \A k \in 2..Len(chunks) :
                  /\ Len(ChunkWords(k)) > overlap
                  /\ SubSeq(ChunkWords(k), 1, overlap) = LastWords(ChunkWords(k - 1), overlap)
             /\ chunks # <<>> =>
                  ChunkWords(1) \o FreshWordsFrom(2, overlap)
                      = SubSeq(words, 1, end)
             /\ spl = "returned" => end = Len(words))

\* C14, a case of what does hold: "a b a" cut with chunk_size 2 and overlap 1: the second chunk
\* repeats the last word of the first.
C14_Witness ==
    /\ spl = "returned"
    /\ splitArgs = [text |-> "a b a", chunk_size |-> 2, overlap |-> 1]
    /\ chunks = <<"a b", "b a">>

----------------------------------------------------------------------------
(* Properties of the booking tools *)

\* the minute of the day a zero-padded HH:MM string names
Minutes(t) ==
    LET Digit(i) == CharCode[SubSeq(t, i, i)] - CharCode["0"]
    IN  (Digit(1) * 10 + Digit(2)) * 60 + Digit(4) * 10 + Digit(5)

\* the three clauses of the conflict test, on minutes of the day: the
\* existing interval [exStart, exEnd) against the request [reqStart, reqEnd)
Overlap3(reqStart, reqEnd, exStart, exEnd) ==
    \/ reqStart <= exStart /\ exStart < reqEnd
    \/ reqStart < exEnd /\ exEnd <= reqEnd
    \/ exStart <= reqStart /\ exEnd >= reqEnd

\* the start and the end of the interval a schedule document stores, under
\* either pair of field names
DocStart(doc) == IF Has(doc, "start_time") THEN doc.start_time ELSE doc.time_start
DocEnd(doc) == IF Has(doc, "end_time") THEN doc.end_time ELSE doc.time_end

\* the stored document overlaps the interval [s, e) of the date
DocOverlaps(doc, s, e, date) ==
    /\ doc.booking_date = date
    /\ Overlap3(Minutes(s), Minutes(e), Minutes(DocStart(doc)), Minutes(DocEnd(doc)))

\* the room names the last availability query returned
ListedRooms == {bookLog.result.items[i] : i \in 1..Len(bookLog.result.items)}

\* the documents of meeting_rooms
RoomDocs == {meeting_rooms[i] : i \in 1..Len(meeting_rooms)}

\* the documents of schedule_booking
BookingDocs == {schedule_booking[i] : i \in 1..Len(schedule_booking)}

\* C15 as claimed: whatever book_meeting_room calls were made, no two stored
\* bookings of one room and one date overlap.
C15_Original ==
    \A i, j \in 1..Len(schedule_booking) :
        (i < j /\ schedule_booking[i].room_name = schedule_booking[j].room_name) =>
            ~DocOverlaps(schedule_booking[i],
                         DocStart(schedule_booking[j]), DocEnd(schedule_booking[j]),
                         schedule_booking[j].booking_date)

\* C16 as claimed: a room with a booking stored by book_meeting_room on the
\* date and overlapping the interval asked about is not listed by
\* available_meeting_rooms.
C16_Original ==
    (bookLog.op = "available" /\ StrLt(bookLog.time_start, bookLog.time_end)) =>
        \A doc \in BookingDocs :
            ( /\ Has(doc, "time_start")
              /\ DocOverlaps(doc, bookLog.time_start, bookLog.time_end,
                             bookLog.booking_date) ) =>
                doc.room_name \notin ListedRooms

\* C17: the conflict query finds a stored interval [start_time, end_time) of
\* the requested date exactly when one of the three clauses holds of it and
\* the requested interval, read as times of the day; so it finds an interval
\* nested in the request and does not find one that only touches it.
C17_ConflictTest ==
    bookLog.op = "available" =>
        \A doc \in BookingDocs :
            (Has(doc, "start_time") /\ Has(doc, "end_time")) =>
                LET found == \E i \in 1..Len(bookLog.result.bookings) :
                                 bookLog.result.bookings[i] = doc
                    rs == Minutes(bookLog.time_start)
                    re == Minutes(bookLog.time_end)
                    xs == Minutes(doc.start_time)
                    xe == Minutes(doc.end_time)
                IN  /\ found <=> ( /\ doc.booking_date = bookLog.booking_date
                                   /\ Overlap3(rs, re, xs, xe) )
                    /\ ( /\ doc.booking_date = bookLog.booking_date
                         /\ rs <= xs /\ xs < xe /\ xe <= re ) => found
                    /\ (rs < re /\ xs < xe /\ (xe = rs \/ xs = re)) => ~found

\* C17, witness: 09:00-10:00 is asked about, 09:30-09:45 is stored for the
\* date and is the one interval found.
C17_Witness ==
    /\ bookLog.op = "available"
    /\ bookLog.booking_date = "01-09-2023"
    /\ bookLog.time_start = "09:00"
    /\ bookLog.time_end = "10:00"
    /\ Len(schedule_booking) = 1
    /\ Has(schedule_booking[1], "start_time")
    /\ schedule_booking[1].start_time = "09:30"
    /\ schedule_booking[1].end_time = "09:45"
    /\ bookLog.result.bookings = schedule_booking

----------------------------------------------------------------------------
(* Properties of insert_embeddings *)

\* the thread has dropped, or tried to drop, a collection: it is in the
\* migration path behind the flag check
Migrated(t) == \E i \in 1..Len(thr[t].ops) : thr[t].ops[i].op = "drop"

\* C19 as claimed: whatever the interleaving of the inserting threads, at most
\* one of them passes the check of the migration flag and drops a collection.
C19_Original == Cardinality({t \in DOMAIN thr : Migrated(t)}) <= 1

\* C20 as claimed: a migration drops and creates no collection but the one the
\* insert was made into, and when the drop and the create have succeeded and
\* no other thread is at work, the retried insert finds that collection
\* recreated with the dimension of the first record's embedding.
C20_Original ==
    \A t \in DOMAIN thr :
        /\ \A i \in 1..Len(thr[t].ops) :
             thr[t].ops[i].op \in {"drop", "create"} =>
                 thr[t].ops[i].coll = thr[t].coll_name
        /\ ( /\ thr[t].pc = "retry"
             /\ \A u \in DOMAIN thr \ {t} : thr[u].pc = "idle"
             /\ \A i \in 1..Len(thr[t].ops) :
                  thr[t].ops[i].op \in {"drop", "create"} => thr[t].ops[i].ok ) =>
               /\ collections[thr[t].coll_name].exists
               /\ collections[thr[t].coll_name].schema # "legacy"
               /\ collections[thr[t].coll_name].dim = EmbLen(thr[t].data)

\* the inserts among the store operations of one call
InsertOps(ops) == SelectSeq(ops, LAMBDA o : o.op = "insert")

\* the state part of C21, for the call of thread t
C21_Attempts(t) ==
    LET ops == thr[t].ops
        ins == InsertOps(ops)
    IN  /\ Len(ins) <= 2
        \* the first store operation of a call is its first insert
        /\ ops # <<>> => ops[1].op = "insert"
        \* a second insert follows a primary-key mismatch of the first and
        \* the drop of the collection, and is the last operation of the call
        /\ Len(ins) = 2 =>
              /\ ins[1].err = "primary_key"
              /\ ops[Len(ops)].op = "insert"
              /\ \E i \in 2..(Len(ops) - 1) :
                    ops[i].op = "drop" /\ ops[i].coll = thr[t].coll_name
              /\ thr[t].pc \in {"returned", "raised"}
              /\ (thr[t].pc = "raised") <=> ~ins[2].ok
        \* a first failure that is no primary-key mismatch propagates with
        \* nothing after it
        /\ (Len(ins) >= 1 /\ ins[1].err \notin {"ok", "primary_key"}) =>
              thr[t].pc = "raised" /\ Len(ops) = 1
        /\ (Len(ins) >= 1 /\ ins[1].ok) =>
              thr[t].pc = "returned" /\ Len(ops) = 1

\* the step part of C21: a mismatch met when the flag is already set
\* propagates with no store operation, and a call that has raised does nothing
C21_Step(t) ==
    /\ (thr[t].pc = "check" /\ migrationAttempted /\ thr'[t] # thr[t]) =>
          /\ thr'[t].pc = "raised"
          /\ thr'[t].ops = thr[t].ops
    /\ thr[t].pc \in {"raised", "returned"} => thr'[t] = thr[t]

\* C21: one call of insert_embeddings attempts the store insert at most twice:
\* a primary-key mismatch of the first attempt is retried once, after the
\* migration; a failure of the retried insert propagates; a mismatch met after
\* the migration flag is set propagates without a retry; any other failure
\* propagates without retry or drop
C21_InsertAtMostTwice ==
    /\ [](\A t \in DOMAIN thr : C21_Attempts(t))
    /\ [][\A t \in DOMAIN thr : C21_Step(t)]_vars

\* a call whose first insert met the mismatch, that migrated, and whose
\* retried insert failed and propagated
C21_Witness ==
    \E t \in DOMAIN thr :
        LET ins == InsertOps(thr[t].ops)
        IN  /\ Len(ins) = 2
            /\ ins[1].err = "primary_key"
            /\ ~ins[2].ok
            /\ thr[t].pc = "raised"

----------------------------------------------------------------------------
(* load_collection (src/services/milvus/milvus_repo.py:216-230) and the two
   similarity queries that call it: search_text (milvus_repo.py:316-327) and
   the tool ihos_doc_search (src/tools/registry.py:91-124).  Every call of
   the store client or of the embedder is one step, and its outcome is the
   choice of the store or of the embedder. *)

\* the store ranks at most MaxHits rows for one search
MaxHits == 4

\* registry.py:115: full_text[:500]
TruncateAt == 500
\* milvus_repo.py:316: the default k of search_text
SearchTextK == 5
\* registry.py:109: k=3
DocSearchK == 3

\* a text of n characters
RECURSIVE Chars(_)
Chars(n) ==
    IF n = 0 THEN ""
    ELSE LET h == Chars(n \div 2)
         IN  IF n % 2 = 0 THEN h \o h ELSE h \o h \o "x"

\* the `text` of a stored chunk: missing, short, of exactly 500 characters and
\* of 501
HitTexts == {None, "ab", Chars(TruncateAt), Chars(TruncateAt + 1)}

\* the messages of the exceptions client.load_collection raises
LoadErrors == {"index not found", "Index not found", "unavailable"}
\* create_index: the RuntimeError of line 204 or a failure of the store
IndexErrors == {"create_index failed"}
\* embed_text: an exception, or an empty vector (milvus_repo.py:236-237)
EmbedOutcomes == {"ok", "empty", "embedding failed"}

\* a test of line 223 that compares the message as it is
IsIndexNotFound_CaseSensitive(e) == Contains(e, "index not found")

\* milvus_repo.py:223: "index not found" in str(e).lower()
IsIndexNotFound(e) == Contains(Lower(e), "index not found")

\* one hit as MilvusClient.search returns it
StoreHit(i, text) ==
    [distance |-> i,
     entity |-> IF text = None
                THEN [doc_id |-> "d1", chunk_index |-> i]
                ELSE [doc_id |-> "d1", chunk_index |-> i, text |-> text]]

\* what client.search(limit=k) returns: a failure, an empty list, or one list
\* of at most k hits
SearchOutcomes(k) ==
    LET n == Min(k, MaxHits)
    IN  {[kind |-> "raise", res |-> <<>>], [kind |-> "res", res |-> <<>>]}
        \cup { [kind |-> "res", res |-> <<[i \in 1..n |-> StoreHit(i, texts[i])]>>] :
                 texts \in [1..n -> HitTexts] }
        \cup { [kind |-> "res", res |-> <<[i \in 1..1 |-> StoreHit(i, text)]>>] :
                 text \in HitTexts }

\* milvus_repo.py:182-191: the rows search_embeddings makes of the result
search_embeddings(res) ==
    IF res = <<>> THEN <<>>
    ELSE [i \in DOMAIN res[1] |->
            res[1][i].entity @@ [distance |-> res[1][i].distance]]

\* a truncation without the ellipsis
Truncate_NoEllipsis(full_text) ==
    SubSeq(full_text, 1, Min(TruncateAt, Len(full_text)))

\* registry.py:115
Truncate(full_text) ==
    SubSeq(full_text, 1, Min(TruncateAt, Len(full_text)))
        \o (IF Len(full_text) > TruncateAt THEN "..." ELSE "")

\* registry.py:114-121: one element of `matches`
Match(h) ==
    LET full_text == IF Get(h, "text", None) = None THEN "" ELSE h.text
    IN  [doc_id |-> Get(h, "doc_id", None),
         chunk_index |-> Get(h, "chunk_index", None),
         score |-> Get(h, "distance", None),
         text_truncated |-> Truncate(full_text)]

\* a result whose best match is the last match
DocSearchResult_BestLast(query, hits) ==
    IF hits = <<>>
    THEN [query |-> query, matches |-> <<>>, best_match |-> None,
          message |-> "no matching document"]
    ELSE LET matches == [i \in DOMAIN hits |-> Match(hits[i])]
         IN  [query |-> query, matches |-> matches,
              best_match |-> matches[Len(matches)]]

\* registry.py:110-122: the value ihos_doc_search returns for `hits`
DocSearchResult(query, hits) ==
    IF hits = <<>>
    THEN [query |-> query, matches |-> <<>>, best_match |-> None,
          message |-> "no matching document"]
    ELSE LET matches == [i \in DOMAIN hits |-> Match(hits[i])]
         IN  [query |-> query, matches |-> matches, best_match |-> matches[1]]

\* registry.py:123-124
DocSearchError(e) == [error |-> "MilvusSearchError: " \o e]

QueryInit ==
    /\ AgentIdle
    /\ llm = FALSE
    /\ StreamIdle
    /\ SplitIdle
    /\ BookIdle
    /\ MilvusIdle
    /\ IngestIdle
    /\ RestIdle
    /\ kq = NoQuery

\* one more operation in the history of the call; `inLoad` says that it is
\* made by load_collection
Did(k, op, out, inLoad) ==
    [k EXCEPT !.ops = Append(@, [op |-> op, out |-> out]),
              !.lc = IF inLoad THEN Append(@, [op |-> op, out |-> out]) ELSE @]

\* where a query goes on after its load attempts
AfterLoad(fn) == IF fn = "search_text" THEN "search" ELSE "embed"

\* load_collection is entered: milvus_repo.py:217-218
EnterLoad(k, site) ==
    [k EXCEPT !.pc = "load", !.site = site, !.lc = <<>>, !.lcRes = "running"]

\* load_collection is left, returning or raising, and its caller goes on:
\* a direct call ends; the first call of a query falls into the `except` of
\* milvus_repo.py:321 / registry.py:102 when it raised; the second call's
\* failure is swallowed (milvus_repo.py:325-326, registry.py:106-107)
LeaveLoad(k, res) ==
    [k EXCEPT !.lcRes = res,
              !.pc = IF k.site = 0 THEN res
                     ELSE IF k.site = 1 /\ res = "raised" THEN "q_index"
                     ELSE AfterLoad(k.fn)]

\* the entry of load_collection, search_text (milvus_repo.py:316) or
\* ihos_doc_search (registry.py:92-97)
QueryCall ==
    /\ kq = NoQuery
    /\ \E fn \in {"load_collection", "search_text", "ihos_doc_search"},
          collection \in {None, DefaultCollection} :
         /\ fn = "search_text" => collection = None
         /\ kq' = [fn |-> fn,
                   pc |-> IF fn = "search_text" THEN "embed" ELSE "load",
                   site |-> IF fn = "load_collection" THEN 0 ELSE 1,
                   query |-> "q",
                   coll |-> IF collection # None THEN collection
                            ELSE IF fn = "ihos_doc_search" THEN TextCollection
                            ELSE DefaultCollection,
                   ops |-> <<>>,
                   lc |-> <<>>,
                   lcRes |-> IF fn = "search_text" THEN "none" ELSE "running",
                   hits |-> <<>>,
                   result |-> None]
    /\ UNCHANGED notQueryVars

\* milvus_repo.py:233-238 at milvus_repo.py:317 and registry.py:108:
\* compute_embedding; its failure leaves search_text and is caught by
\* ihos_doc_search
Embed ==
    /\ kq.fn # "none"
    /\ kq.pc = "embed"
    /\ \E o \in EmbedOutcomes :
         LET k == Did(kq, "embed", o, FALSE)
         IN  kq' = IF o = "ok"
                   THEN IF kq.fn = "search_text"
                        THEN EnterLoad(k, 1)
                        ELSE [k EXCEPT !.pc = "search"]
                   ELSE IF kq.fn = "search_text"
                        THEN [k EXCEPT !.pc = "raised", !.result = o]
                        ELSE [k EXCEPT !.pc = "returned",
                                       !.result = DocSearchError(o)]
    /\ UNCHANGED notQueryVars

\* milvus_repo.py:220 (pc "load") and 226 (pc "reload"):
\* client.load_collection
Load ==
    /\ kq.fn # "none"
    /\ kq.pc \in {"load", "reload"}
    /\ \E o \in {"ok"} \cup LoadErrors :
         LET k == Did(kq, "load", o, TRUE)
         IN  kq' = IF o = "ok" THEN LeaveLoad(k, "returned")
                   ELSE IF kq.pc = "load" /\ IsIndexNotFound(o)
                        THEN [k EXCEPT !.pc = "lc_index"]
                   ELSE LeaveLoad(k, "raised")
    /\ UNCHANGED notQueryVars

\* milvus_repo.py:225: create_index(collection=coll_name) inside
\* load_collection
LoadIndex ==
    /\ kq.fn # "none"
    /\ kq.pc = "lc_index"
    /\ \E o \in {"ok"} \cup IndexErrors :
         LET k == Did(kq, "index", o, TRUE)
         IN  kq' = IF o = "ok" THEN [k EXCEPT !.pc = "reload"]
                   ELSE LeaveLoad(k, "raised")
    /\ UNCHANGED notQueryVars

\* milvus_repo.py:323-324 and registry.py:104-105: the query's own
\* create_index, and load_collection once more when it succeeded
QueryIndex ==
    /\ kq.fn # "none"
    /\ kq.pc = "q_index"
    /\ \E o \in {"ok"} \cup IndexErrors :
         LET k == Did(kq, "index", o, FALSE)
         IN  kq' = IF o = "ok" THEN EnterLoad(k, 2)
                   ELSE [k EXCEPT !.pc = AfterLoad(kq.fn)]
    /\ UNCHANGED notQueryVars

\* milvus_repo.py:327 with 172-191, and registry.py:109-124
Search ==
    /\ kq.fn # "none"
    /\ kq.pc = "search"
    /\ \E o \in SearchOutcomes(IF kq.fn = "search_text" THEN SearchTextK
                               ELSE DocSearchK) :
         LET k == [Did(kq, "search", o.kind, FALSE) EXCEPT
                      !.hits = IF o.res = <<>> THEN <<>> ELSE o.res[1]]
             hits == search_embeddings(o.res)
         IN  kq' = IF o.kind = "raise"
                   THEN IF kq.fn = "search_text"
                        THEN [k EXCEPT !.pc = "raised", !.result = "search failed"]
                        ELSE [k EXCEPT !.pc = "returned",
                                       !.result = DocSearchError("search failed")]
                   ELSE [k EXCEPT !.pc = "returned",
                                  !.result = IF kq.fn = "search_text" THEN hits
                                             ELSE DocSearchResult(kq.query, hits)]
    /\ UNCHANGED notQueryVars

QueryNext ==
    \/ QueryCall
    \/ Embed
    \/ Load
    \/ LoadIndex
    \/ QueryIndex
    \/ Search

SpecQuery == QueryInit /\ [][QueryNext]_vars

----------------------------------------------------------------------------
(* Properties of load_collection and of the similarity queries *)

\* the operations `op` among ops
OpsOf(ops, op) == SelectSeq(ops, LAMBDA o : o.op = op)

\* the failure of a load is a missing index
MissingIndex(out) == out \in {"index not found", "Index not found"}

\* C22: load_collection retries exactly once and only on a missing-index
\* failure: a first load that fails for want of an index is followed by one
\* index build and one more load; a failure of the build or of the second load
\* propagates; a first failure of another kind propagates at once, with no
\* index build
C22_LoadRetriesOnce ==
    (kq.fn # "none" /\ kq.lcRes \in {"returned", "raised"}) =>
        LET l == kq.lc
        IN  /\ Len(l) \in 1..3
            /\ l[1].op = "load"
            /\ l[1].out = "ok" => Len(l) = 1 /\ kq.lcRes = "returned"
            /\ (l[1].out # "ok" /\ ~MissingIndex(l[1].out)) =>
                  Len(l) = 1 /\ kq.lcRes = "raised"
            /\ MissingIndex(l[1].out) =>
                  /\ Len(l) >= 2
                  /\ l[2].op = "index"
                  /\ l[2].out # "ok" => Len(l) = 2 /\ kq.lcRes = "raised"
                  /\ l[2].out = "ok" =>
                        /\ Len(l) = 3
                        /\ l[3].op = "load"
                        /\ (kq.lcRes = "returned") <=> (l[3].out = "ok")

\* a direct call of load_collection that met a missing index, built the index
\* and failed to load again
C22_Witness ==
    /\ kq.fn = "load_collection"
    /\ kq.pc = "raised"
    /\ Len(kq.lc) = 3
    /\ kq.lc[1].out = "Index not found"
    /\ kq.lc[2].out = "ok"
    /\ kq.lc[3].out # "ok"

\* C23: during one similarity query the store's load is attempted at most
\* twice and the index build at most once
C23_Original ==
    kq.fn \in {"search_text", "ihos_doc_search"} =>
        /\ Len(OpsOf(kq.ops, "load")) <= 2
        /\ Len(OpsOf(kq.ops, "index")) <= 1

\* what the code does bound: at most four loads and three index builds
C23_NestedRetries ==
    kq.fn \in {"search_text", "ihos_doc_search"} =>
        /\ Len(OpsOf(kq.ops, "load")) <= 4
        /\ Len(OpsOf(kq.ops, "index")) <= 3

\* C27: every match of the knowledge query carries a truncated text of at
\* most 500 characters
C27_Original ==
    (kq.fn = "ihos_doc_search" /\ kq.pc = "returned"
        /\ "matches" \in DOMAIN kq.result) =>
        \A i \in DOMAIN kq.result.matches :
            Len(kq.result.matches[i].text_truncated) <= TruncateAt

\* the text of the i-th hit the search of the call returned ("" when the hit
\* has none)
HitText(i) ==
    LET e == kq.hits[i].entity
    IN  IF "text" \in DOMAIN e THEN e.text ELSE ""

\* C27, as the code has it: the truncated text is the stored text when that
\* has at most 500 characters, and otherwise its first 500 characters followed
\* by "...": at most 503 characters
C27_TruncatedText ==
    (kq.fn = "ihos_doc_search" /\ kq.pc = "returned"
        /\ "matches" \in DOMAIN kq.result) =>
        \A i \in DOMAIN kq.result.matches :
            LET tt == kq.result.matches[i].text_truncated
                full == HitText(i)
            IN  /\ Len(tt) <= TruncateAt + 3
                /\ Len(full) <= TruncateAt => tt = full
                /\ Len(full) > TruncateAt =>
                      /\ Len(tt) = TruncateAt + 3
                      /\ SubSeq(tt, 1, TruncateAt) = SubSeq(full, 1, TruncateAt)
                      /\ SubSeq(tt, TruncateAt + 1, TruncateAt + 3) = "..."

\* a returned match whose stored text has 501 characters
C27_Witness ==
    /\ kq.fn = "ihos_doc_search"
    /\ kq.pc = "returned"
    /\ "matches" \in DOMAIN kq.result
    /\ \E i \in DOMAIN kq.result.matches :
          /\ Len(HitText(i)) = TruncateAt + 1
          /\ Len(kq.result.matches[i].text_truncated) = TruncateAt + 3

\* C28: the knowledge query never raises: no hits give an empty matches list
\* and a null best match, hits give at most 3 matches of which the best match
\* is the first, and a failure of the embedding or of the search is returned
\* as an error value
C28_NeverRaises ==
    kq.fn = "ihos_doc_search" =>
        /\ kq.pc # "raised"
        /\ kq.pc = "returned" =>
              LET failed == \E i \in DOMAIN kq.ops :
                                /\ kq.ops[i].op \in {"embed", "search"}
                                /\ kq.ops[i].out \notin {"ok", "res"}
              IN  /\ failed <=> DOMAIN kq.result = {"error"}
                  /\ ~failed =>
                        /\ kq.ops[Len(kq.ops)].op = "search"
                        /\ Len(kq.result.matches) = Len(kq.hits)
                        /\ Len(kq.result.matches) <= DocSearchK
                        /\ kq.hits = <<>> =>
                              /\ kq.result.matches = <<>>
                              /\ kq.result.best_match = None
                        /\ kq.hits # <<>> =>
                              /\ kq.result.best_match = kq.result.matches[1]
                              /\ kq.result.matches[1].doc_id = kq.hits[1].entity.doc_id

\* a query whose load attempts all failed and whose search found nothing
C28_Witness ==
    /\ kq.fn = "ihos_doc_search"
    /\ kq.pc = "returned"
    /\ \E i \in DOMAIN kq.ops : kq.ops[i].op = "load" /\ kq.ops[i].out # "ok"
    /\ kq.ops[Len(kq.ops)] = [op |-> "search", out |-> "res"]
    /\ kq.hits = <<>>
    /\ kq.result.matches = <<>>
    /\ kq.result.best_match = None

----------------------------------------------------------------------------
(* index_text_file: src/services/milvus/milvus_repo.py:421-466.  One caller
   ingests documents one after the other.  The call runs _split_text (the
   steps SplitEnter and SplitIterate), asks the embedder once, ensures the
   text collection, runs insert_embeddings as thread 1 (the steps StoreInsert
   to EnsureCollection), builds the index and runs load_collection (the steps
   Load and LoadIndex).  A finished call leaves a summary in ing.done. *)

\* the caller makes at most MaxIngests calls of index_text_file
MaxIngests == 2

DocIds == {"d1", "d2"}
\* a text without a word and a text of two words
IngestTexts == {" ", "a b"}
IngestChunkSizes == {1, 2}
\* the length of the vectors the embedder returns
EmbedDims == {2}

\* the locals of index_text_file before the call; nvec is the number of
\* vectors the embedder returned, -1 as long as it has returned none
IngestLocals ==
    [doc_id |-> None, text |-> "", collection |-> None, raw_chunks |-> <<>>,
     nvec |-> -1, coll_name |-> None, records |-> <<>>, opKinds |-> {}]

\* the caller between two calls, the calls made so far being `done`
IngestReady(done) == [pc |-> "idle", done |-> done] @@ IngestLocals

\* records whose chunk_index counts from 1
Records_FromOne(doc_id, raw_chunks, embeddings) ==
    [i \in 1..Min(Len(raw_chunks), Len(embeddings)) |->
        [doc_id |-> doc_id, chunk_index |-> i, text |-> raw_chunks[i],
         embedding |-> embeddings[i]]]

\* milvus_repo.py:443-450: one record per pair of zip(raw_chunks, embeddings),
\* chunk_index being the position counted from 0
Records(doc_id, raw_chunks, embeddings) ==
    [i \in 1..Min(Len(raw_chunks), Len(embeddings)) |->
        [doc_id |-> doc_id, chunk_index |-> i - 1, text |-> raw_chunks[i],
         embedding |-> embeddings[i]]]

\* what get_embeddings(raw_chunks) does for n chunks: it raises, or returns
\* nothing, one vector too few, one per chunk or one too many
EmbeddingOutcomes(n) ==
    {[kind |-> "raise", vecs |-> <<>>]} \cup
    { [kind |-> "vectors", vecs |-> v] :
        v \in UNION { [1..m -> EmbedDims] : m \in {0, n - 1, n, n + 1} \cap (0..(n + 1)) } }

\* the names of the operations in a history
KindsOf(ops) == {ops[i].op : i \in DOMAIN ops}

\* the call ends: its locals are gone and its summary is kept
IngestFinish(g, outcome, result, kinds) ==
    IngestReady(Append(g.done,
        [doc_id |-> g.doc_id, text |-> g.text, chunk_size |-> splitArgs.chunk_size,
         overlap |-> splitArgs.overlap, collection |-> g.collection,
         chunks |-> Len(g.raw_chunks), nvec |-> g.nvec,
         outcome |-> outcome, result |-> result, opKinds |-> kinds]))

IngestInit ==
    /\ AgentIdle
    /\ llm = FALSE
    /\ StreamIdle
    /\ BookIdle
    /\ QueryIdle
    /\ SplitIdle
    /\ collections \in [CollNames -> {Absent, Legacy(2), TextSchema(2)}]
    /\ collections[DefaultCollection] = Absent
    /\ migrationAttempted = FALSE
    /\ thr = <<IdleThread>>
    /\ ing = IngestReady(<<>>)
    /\ RestIdle

\* milvus_repo.py:421-432: the call, up to the entry of _split_text
IngestCall ==
    /\ ing.pc = "idle"
    /\ Len(ing.done) < MaxIngests
    /\ \E doc_id \in DocIds, text \in IngestTexts, cs \in IngestChunkSizes :
         /\ ing' = [ing EXCEPT !.pc = "split", !.doc_id = doc_id, !.text = text]
         /\ splitArgs' = [text |-> text, chunk_size |-> cs, overlap |-> 0]
         /\ chunk_size' = cs
         /\ overlap' = 0
    /\ words' = <<>>
    /\ chunks' = <<>>
    /\ start' = 0
    /\ end' = 0
    /\ spl' = "entry"
    /\ UNCHANGED <<milvusVars, notIngestVars>>

\* a call that goes on to the embedder whatever the number of chunks
IngestChunks_NoEarlyReturn ==
    /\ ing.pc = "split"
    /\ spl = "returned"
    /\ ing' = [ing EXCEPT !.raw_chunks = chunks, !.pc = "embed"]
    /\ UNCHANGED <<splitVars, milvusVars, notIngestVars>>

\* milvus_repo.py:432-434: _split_text has returned; no chunk ends the call
\* with the zero result
IngestChunks ==
    /\ ing.pc = "split"
    /\ spl = "returned"
    /\ LET g == [ing EXCEPT !.raw_chunks = chunks]
       IN  ing' = IF chunks = <<>>
                  THEN IngestFinish(g, "returned",
                          [doc_id |-> ing.doc_id,
                           collection |-> IF ing.collection # None
                                          THEN ing.collection ELSE TextCollection,
                           chunk_count |-> 0,
                           inserted_ids |-> <<>>], ing.opKinds)
                  ELSE [g EXCEPT !.pc = "embed"]
    /\ UNCHANGED <<splitVars, milvusVars, notIngestVars>>

\* a call that only tests that the embedder returned something
IngestEmbed_NoCountTest ==
    /\ ing.pc = "embed"
    /\ \E o \in EmbeddingOutcomes(Len(ing.raw_chunks)) :
         LET kinds == ing.opKinds \cup {"embed"}
             embeddings == o.vecs
         IN  ing' = IF o.kind = "raise"
                    THEN IngestFinish(ing, "raised", "embedding failed", kinds)
                    ELSE LET g == [ing EXCEPT !.nvec = Len(embeddings),
                                              !.opKinds = kinds]
                         IN  IF embeddings = <<>> \/ ing.raw_chunks = <<>>
                             THEN IngestFinish(g, "raised", "RuntimeError", kinds)
                             ELSE [g EXCEPT
                                     !.pc = "ensure",
                                     !.records = Records(ing.doc_id, ing.raw_chunks,
                                                         embeddings)]
    /\ UNCHANGED <<splitVars, milvusVars, notIngestVars>>

\* milvus_repo.py:437-440: get_embeddings and the test of the count
IngestEmbed ==
    /\ ing.pc = "embed"
    /\ \E o \in EmbeddingOutcomes(Len(ing.raw_chunks)) :
         LET kinds == ing.opKinds \cup {"embed"}
             embeddings == o.vecs
         IN  ing' = IF o.kind = "raise"
                    THEN IngestFinish(ing, "raised", "embedding failed", kinds)
                    ELSE LET g == [ing EXCEPT !.nvec = Len(embeddings),
                                              !.opKinds = kinds]
                         IN  IF embeddings = <<>>
                                \/ Len(embeddings) # Len(ing.raw_chunks)
                             THEN IngestFinish(g, "raised", "RuntimeError", kinds)
                             ELSE [g EXCEPT
                                     !.pc = "ensure",
                                     !.records = Records(ing.doc_id, ing.raw_chunks,
                                                         embeddings)]
    /\ UNCHANGED <<splitVars, milvusVars, notIngestVars>>

\* milvus_repo.py:441 with 363-385: ensure_text_collection(name=collection,
\* dim=dim): has_collection and, for a missing collection, create_collection,
\* whose failure leaves index_text_file
IngestEnsure ==
    /\ ing.pc = "ensure"
    /\ LET c == IF ing.collection # None THEN ing.collection ELSE TextCollection
           dim == ing.records[1].embedding
       IN  IF collections[c].exists
           THEN /\ ing' = [ing EXCEPT !.pc = "insert", !.coll_name = c,
                                      !.opKinds = @ \cup {"has"}]
                /\ UNCHANGED collections
           ELSE \E created \in BOOLEAN :
                  /\ collections' = IF created
                                    THEN [collections EXCEPT ![c] = TextSchema(dim)]
                                    ELSE collections
                  /\ ing' = IF created
                            THEN [ing EXCEPT !.pc = "insert", !.coll_name = c,
                                             !.opKinds = @ \cup {"has", "create"}]
                            ELSE IngestFinish(ing, "raised", "create failed",
                                              ing.opKinds \cup {"has", "create"})
    /\ UNCHANGED <<migrationAttempted, thr>>
    /\ UNCHANGED <<splitVars, notIngestVars>>

\* milvus_repo.py:451 with 137-143: insert_embeddings(records,
\* collection=coll_name) is entered
IngestInsert ==
    /\ ing.pc = "insert"
    /\ thr[1].pc = "idle"
    /\ thr' = [thr EXCEPT ![1] = [pc |-> "insert", coll_name |-> ing.coll_name,
                                  records |-> ing.records,
                                  data |-> Stripped(ing.records), ops |-> <<>>]]
    /\ ing' = [ing EXCEPT !.pc = "inserting"]
    /\ UNCHANGED <<collections, migrationAttempted>>
    /\ UNCHANGED <<splitVars, notIngestVars>>

\* milvus_repo.py:451-456: insert_embeddings has returned or raised; after a
\* return create_index(collection=coll_name) runs, its failure swallowed, and
\* load_collection is entered (line 458)
IngestIndex ==
    /\ ing.pc = "inserting"
    /\ thr[1].pc \in {"returned", "raised"}
    /\ LET kinds == ing.opKinds \cup KindsOf(thr[1].ops)
       IN  IF thr[1].pc = "raised"
           THEN /\ ing' = IngestFinish(ing, "raised", "insert failed", kinds)
                /\ UNCHANGED kq
           ELSE \E o \in {"ok"} \cup IndexErrors :
                  /\ ing' = [ing EXCEPT !.pc = "load",
                                        !.opKinds = kinds \cup {"index"}]
                  /\ kq' = EnterLoad([fn |-> "load_collection", pc |-> "load",
                                      site |-> 0, query |-> None,
                                      coll |-> ing.coll_name, ops |-> <<>>,
                                      lc |-> <<>>, lcRes |-> "running",
                                      hits |-> <<>>, result |-> None], 0)
    /\ thr' = [thr EXCEPT ![1] = IdleThread]
    /\ UNCHANGED <<collections, migrationAttempted>>
    /\ UNCHANGED <<splitVars, agentVars, streamVars, bookVars>>
    /\ UNCHANGED <<pairVars, clientVars, endpointVars>>

\* milvus_repo.py:457-466: load_collection has returned or raised (its
\* failure swallowed) and index_text_file returns its result; the ids are
\* those the store gave to the rows of this insert
IngestReturn ==
    /\ ing.pc = "load"
    /\ kq.fn # "none"
    /\ kq.pc \in {"returned", "raised"}
    /\ LET n == Len(ing.records)
           total == Len(collections[ing.coll_name].rows)
       IN  ing' = IngestFinish(ing, "returned",
                      [doc_id |-> ing.doc_id,
                       collection |-> ing.coll_name,
                       chunk_count |-> n,
                       inserted_ids |-> [i \in 1..n |-> total - n + i]],
                      ing.opKinds \cup KindsOf(kq.ops))
    /\ kq' = NoQuery
    /\ UNCHANGED <<splitVars, milvusVars>>
    /\ UNCHANGED <<agentVars, streamVars, bookVars>>
    /\ UNCHANGED <<pairVars, clientVars, endpointVars>>

IngestNext ==
    \/ IngestCall
    \/ SplitEnter
    \/ SplitIterate
    \/ IngestChunks
    \/ IngestEmbed
    \/ IngestEnsure
    \/ IngestInsert
    \/ StoreInsert(1)
    \/ CheckFlag(1)
    \/ SetFlag(1)
    \/ DropCollection(1)
    \/ EnsureCollection(1)
    \/ IngestIndex
    \/ Load
    \/ LoadIndex
    \/ IngestReturn

SpecIngest == IngestInit /\ [][IngestNext]_vars

----------------------------------------------------------------------------
(* Properties of index_text_file *)

\* the finished calls of index_text_file
Done == IF "done" \in DOMAIN ing THEN ing.done ELSE <<>>

\* the call in flight is the ingestion of a text without a word
IngestingNoWord == ing.pc \notin {"none", "idle"} /\ Split(ing.text) = <<>>

\* C24: ingesting a text that yields zero chunks returns chunk_count = 0 with
\* an empty id list, calls the embedder not at all and performs no operation
\* on the vector store
C24_ZeroChunksTouchNothing ==
    /\ [](\A i \in DOMAIN Done :
            Split(Done[i].text) = <<>> =>
                /\ Done[i].outcome = "returned"
                /\ Done[i].result.chunk_count = 0
                /\ Done[i].result.inserted_ids = <<>>
                /\ Done[i].opKinds = {})
    /\ [][IngestingNoWord => UNCHANGED <<milvusVars, queryVars>>]_vars

\* a text of one blank was ingested after a document had been stored
C24_Witness ==
    \E i \in DOMAIN Done :
        /\ i > 1
        /\ Done[i - 1].outcome = "returned"
        /\ Done[i - 1].result.chunk_count = 2
        /\ Done[i].text = " "
        /\ Done[i].outcome = "returned"
        /\ Done[i].result.chunk_count = 0

\* the call in flight has not passed the test of the embedding count
BeforeEnsure == ing.pc \in {"split", "embed"}

\* C25: when the embedder returns a number of vectors different from the
\* number of chunks, or none, the call fails before the collection is
\* ensured and before anything is inserted, and the store is unchanged
C25_CountMismatchIsFatal ==
    /\ [](\A i \in DOMAIN Done :
            (Done[i].chunks > 0 /\ Done[i].nvec >= 0
                /\ Done[i].nvec # Done[i].chunks) =>
                /\ Done[i].outcome = "raised"
                /\ Done[i].opKinds = {"embed"})
    /\ [][BeforeEnsure => UNCHANGED <<milvusVars, queryVars>>]_vars

\* two chunks, for which the embedder returned one vector
C25_Witness ==
    \E i \in DOMAIN Done :
        /\ Done[i].chunks = 2
        /\ Done[i].nvec = 1
        /\ Done[i].outcome = "raised"

\* the document id and chunk_index of the chunk records among rows
RowKeys(rows) ==
    LET docRows == SelectSeq(rows, LAMBDA r : "doc_id" \in DOMAIN r)
    IN  [i \in DOMAIN docRows |-> <<docRows[i].doc_id, docRows[i].chunk_index>>]

\* a call that returned after an insert into collection c
StoredInto(d, c) ==
    d.outcome = "returned" /\ d.result.chunk_count > 0 /\ d.result.collection = c

\* the keys the calls done[i..] that stored into c have added: for each call
\* its document id with 0, 1, ..., chunk_count - 1
RECURSIVE KeysFrom(_, _, _)
KeysFrom(done, c, i) ==
    IF i > Len(done) THEN <<>>
    ELSE (IF StoredInto(done[i], c)
          THEN [j \in 1..done[i].result.chunk_count |-> <<done[i].doc_id, j - 1>>]
          ELSE <<>>) \o KeysFrom(done, c, i + 1)

SameInput(d, e) ==
    /\ d.doc_id = e.doc_id
    /\ d.text = e.text
    /\ d.chunk_size = e.chunk_size
    /\ d.overlap = e.overlap
    /\ d.collection = e.collection

\* C26: ingestion does no deduplication: between calls, the chunk records a
\* collection holds are those of every call that stored into it, one after
\* the other, each call's chunk_index running 0..chunk_count-1; and two calls
\* with the same document id, text and chunking parameters return the same
\* chunk_count
C26_NoDeduplication ==
    ing.pc = "idle" =>
        /\ \A c \in CollNames :
              RowKeys(collections[c].rows) = KeysFrom(ing.done, c, 1)
        /\ \A i, j \in DOMAIN ing.done :
              (SameInput(ing.done[i], ing.done[j])
                  /\ ing.done[i].outcome = "returned"
                  /\ ing.done[j].outcome = "returned") =>
                  ing.done[i].result.chunk_count = ing.done[j].result.chunk_count

\* the same two-chunk document was ingested twice and is stored twice
C26_Witness ==
    /\ ing.pc = "idle"
    /\ Len(ing.done) = 2
    /\ SameInput(ing.done[1], ing.done[2])
    /\ StoredInto(ing.done[1], TextCollection)
    /\ StoredInto(ing.done[2], TextCollection)
    /\ ing.done[1].result.chunk_count = 2
    /\ RowKeys(collections[TextCollection].rows) =
          <<<<ing.done[1].doc_id, 0>>, <<ing.done[1].doc_id, 1>>,
            <<ing.done[1].doc_id, 0>>, <<ing.done[1].doc_id, 1>>>>

----------------------------------------------------------------------------
(* Properties of the argument resolution of tool_node *)

\* the argument set recorded for the selected tool before tool_node runs
RecordedArgs == Get(st.tool_args, st.selected_tool, EmptyMap)

\* C29: when tool_args holds a non-empty argument set for the selected
\* registered tool, tool_node invokes the tool with exactly that set and
\* leaves tool_args as it is; the query is not substituted into it
C29_RecordedArgsVerbatim ==
    [][ (pc = "tool" /\ st.selected_tool \in tools /\ DOMAIN RecordedArgs # {}) =>
           /\ toolCall'.invoked
           /\ toolCall'.name = st.selected_tool
           /\ toolCall'.args = RecordedArgs
           /\ st'.tool_args = st.tool_args ]_vars

\* book_meeting_room ran with the room the extraction recorded, not with the
\* query
C29_Witness ==
    /\ pc = "finalize"
    /\ toolCall.invoked
    /\ toolCall.name = "book_meeting_room"
    /\ toolCall.args = ("room" :> "A")
    /\ st.tool_args = ("book_meeting_room" :> ("room" :> "A"))
    /\ st.query # "A"

\* the fixed lookup table of graph.py:214
NameMap == [echo |-> "text", internet_search |-> "query"]

\* C30: when the selected registered tool has no recorded argument set, or an
\* empty one, tool_node binds the tool's parameter to the raw query if the
\* tool declares exactly one; otherwise it binds the parameter the lookup
\* table gives for the tool's name; otherwise it invokes the tool with an
\* empty argument set, and the tool is invoked all the same
C30_ArgumentResolutionOrder ==
    [][ (pc = "tool" /\ st.selected_tool \in tools /\ DOMAIN RecordedArgs = {}) =>
           LET name == st.selected_tool
               params == ToolParams[name]
           IN  /\ toolCall'.invoked
               /\ toolCall'.name = name
               /\ toolCall'.args =
                     IF Len(params) = 1 THEN (params[1] :> st.query)
                     ELSE IF name \in DOMAIN NameMap THEN (NameMap[name] :> st.query)
                     ELSE EmptyMap
               /\ st'.output = IF toolCall'.raised
                               THEN "ToolError: " \o toolCall'.val
                               ELSE toolCall'.val ]_vars

\* book_meeting_room, extracted without arguments, ran with its sole parameter
\* bound to the query
C30_Witness ==
    /\ pc = "finalize"
    /\ toolCall.invoked
    /\ toolCall.name = "book_meeting_room"
    /\ toolCall.args = ("room" :> st.query)
    /\ \E i \in DOMAIN st.trace : st.trace[i] = "LLM_STRUCTURED -> book_meeting_room {}"

\* a tool without parameters and outside the table ran with no argument and
\* answered
C30_WitnessEmpty ==
    /\ pc = "finalize"
    /\ toolCall.invoked
    /\ toolCall.name = "list_meeting_rooms"
    /\ toolCall.args = EmptyMap
    /\ ~toolCall.raised

----------------------------------------------------------------------------
(* Properties of the request as a whole *)

\* C31: for a tool selected by a successful structured extraction, tool_node
\* invokes the tool with exactly the extracted args, an empty args object
\* included, and infers no argument from the query
C31_Original ==
    [][ (pc = "tool" /\ Ran("llm_structured") /\ ExtractionSucceeded(llmCalls)
            /\ st.selected_tool \in tools) =>
           /\ toolCall'.invoked
           /\ toolCall'.args = ArgsOrEmpty(ExtractedDict(llmCalls)) ]_vars

\* C32: after tool_node, whatever the outcome (tool success, ToolError,
\* unknown tool, echo fallback), one and the same result string is the last
\* element of `intermediate`, the value of `output` and the tail of the new
\* trace entry "TOOL <name>: <result>"; the earlier elements of `intermediate`
\* and of the trace are as they were
C32_ResultRecordedThrice ==
    [][ pc = "tool" =>
           LET name == st.selected_tool
               result == st'.output
           IN  /\ result = IF toolCall'.invoked
                           THEN IF toolCall'.raised
                                THEN "ToolError: " \o toolCall'.val
                                ELSE toolCall'.val
                           ELSE IF name = "echo" THEN "ECHO: " \o st.query
                                ELSE "Unknown tool: " \o Fmt(name)
               /\ st'.intermediate = Append(st.intermediate, result)
               /\ st'.trace = Append(st.trace,
                                     "TOOL " \o Fmt(name) \o ": " \o result) ]_vars

\* a raising tool: the ToolError string is the output, the last intermediate
\* and the tail of the last trace entry
C32_Witness ==
    /\ pc = "finalize"
    /\ toolCall.invoked
    /\ toolCall.raised
    /\ st.output = "ToolError: " \o toolCall.val
    /\ Last(st.intermediate) = st.output
    /\ Last(st.trace) = "TOOL " \o toolCall.name \o ": " \o st.output

\* the positions of node in the nodes that have run
Runs(node) == {i \in DOMAIN visited : visited[i] = node}

\* C33: within one request dispatch, tool and finalize run in this order,
\* each once; the tool stage runs with selected_tool set and before the
\* finalize call of the model; a finished request has exactly one entry in
\* `intermediate` and a trace that begins with "INIT: <query>" and ends with
\* "FINALIZE"
C33_StagesInOrder ==
    /\ \A node \in {"dispatch", "tool", "finalize"} : Cardinality(Runs(node)) <= 1
    /\ visited # <<>> => visited[1] = "dispatch"
    /\ \A i \in Runs("tool") :
          /\ Runs("dispatch") # {}
          /\ st.selected_tool # None
          /\ \A j \in DOMAIN visited : j > i => visited[j] = "finalize"
    /\ \A i \in Runs("finalize") : i > 1 /\ visited[i - 1] = "tool"
    /\ Len(st.intermediate) = Cardinality(Runs("tool"))
    /\ (toolCall # NoCall) <=> Ran("tool")
    /\ llmCalls.finalize # <<>> => Ran("tool")
    /\ st.trace[1] = "INIT: " \o st.query
    /\ pc = "done" =>
          /\ \A node \in {"dispatch", "tool", "finalize"} :
                Cardinality(Runs(node)) = 1
          /\ Len(st.intermediate) = 1
          /\ Last(st.trace) = "FINALIZE"

\* a finished request that went through every node of the graph
C33_Witness ==
    /\ pc = "done"
    /\ visited = <<"dispatch", "llm_structured", "router", "tool", "finalize">>
    /\ toolCall.invoked
    /\ llmCalls.finalize # <<>>

----------------------------------------------------------------------------
(* Two concurrent requests: src/inference/run.py invoke_agent, called from
   the threads of the server, over the graph of graph.build_graph *)

Requests == {1, 2}

\* The queries of the two requests: one with a booking trigger, one without
PairQueries == {"13t ph5ng", "ab"}

\* What the collaborators answer to one request, fixed when it starts: the
\* structured call (o1), the plain call (o2), the router call, the tool (any
\* tool but echo, which computes its result) and the finalize call
PairScripts ==
    { [o1 |-> [kind |-> "msg", err |-> "",
               structured_output |-> JsonDict("book_meeting_room", ("room" :> "A")),
               output |-> PyNone, content |-> PyNone],
       o2 |-> [kind |-> "raise", err |-> "quota", content |-> PyNone],
       router |-> [raised |-> TRUE, err |-> "quota", tool_calls |-> <<>>],
       tool |-> [raised |-> FALSE, val |-> "{\"count\": 0, \"items\": []}"],
       finalize |-> [raised |-> FALSE, err |-> "", content |-> "Tra loi."]],
      [o1 |-> [kind |-> "raise", err |-> "quota", structured_output |-> PyNone,
               output |-> PyNone, content |-> PyNone],
       o2 |-> [kind |-> "raise", err |-> "quota", content |-> PyNone],
       router |-> [raised |-> FALSE, err |-> "",
                   tool_calls |-> <<[name |-> "ihos_doc_search",
                                     args |-> ("query" :> "x")]>>],
       tool |-> [raised |-> TRUE, val |-> "db down"],
       finalize |-> [raised |-> TRUE, err |-> "quota", content |-> None]],
      [o1 |-> [kind |-> "no_api", err |-> "", structured_output |-> PyNone,
               output |-> PyNone, content |-> PyNone],
       o2 |-> [kind |-> "msg", err |-> "", content |-> PyStr(BookingJson)],
       router |-> [raised |-> FALSE, err |-> "", tool_calls |-> <<>>],
       tool |-> [raised |-> FALSE, val |-> "{\"count\": 0, \"items\": []}"],
       finalize |-> [raised |-> FALSE, err |-> "", content |-> None]] }

\* run.py:15-16: a request that has its state and asks for the graph
NewRequest(query, script) ==
    [pc |-> "build", graph |-> 0, query |-> query, script |-> script,
     st |-> init_state(query), resp |-> <<>>]

\* run.py:19, graph.invoke(state): the state dict the nodes of request i work on
StateOf_Shared(i) == pair.req[1].st

StateOf(i) == pair.req[i].st

\* One node of the graph on the state s of request r, or the return of
\* invoke_agent: the request afterwards
RunStage(r, s, avail, registry) ==
    IF r.pc = "dispatch"
    THEN [r EXCEPT !.pc = dispatch_node(s), !.st = s]
    ELSE IF r.pc = "llm_structured"
    THEN LET n == llm_structured_node(s, avail, r.script.o1, r.script.o2)
         IN  [r EXCEPT !.pc = n.next, !.st = n.s]
    ELSE IF r.pc = "router"
    THEN [r EXCEPT !.pc = "tool", !.st = router_node(s, avail, r.script.router)]
    ELSE IF r.pc = "tool"
    THEN LET tool_name == s.selected_tool
             registered == tool_name \in registry
             args_map == IF registered
                         THEN ResolveArgs(tool_name, s.tool_args, s.query)
                         ELSE EmptyMap
             o == IF ~registered THEN [raised |-> FALSE, val |-> ""]
                  ELSE IF tool_name = "echo"
                  THEN CHOOSE x \in ToolInvoke(tool_name, args_map) : TRUE
                  ELSE r.script.tool
         IN  [r EXCEPT !.pc = "finalize", !.st = tool_node(s, registry, o)]
    ELSE IF r.pc = "finalize"
    THEN [r EXCEPT !.pc = "end", !.st = finalize_node(s, avail, r.script.finalize)]
    ELSE [r EXCEPT !.pc = "done", !.st = s, !.resp = <<invoke_agent_result(s)>>]

\* The request run alone from its first node to its return
RECURSIVE RunAlone(_, _, _)
RunAlone(r, avail, registry) ==
    IF r.pc = "done" THEN r
    ELSE RunAlone(RunStage(r, r.st, avail, registry), avail, registry)

PairInit ==
    /\ AgentIdle
    /\ llm \in BOOLEAN
    /\ StreamIdle
    /\ SplitIdle
    /\ BookIdle
    /\ MilvusIdle
    /\ QueryIdle
    /\ IngestIdle
    /\ ClientIdle
    /\ EndpointIdle
    /\ \E q \in [Requests -> PairQueries], sc \in [Requests -> PairScripts] :
         pair = [instance |-> 0,
                 req |-> [i \in Requests |-> NewRequest(q[i], sc[i])]]

\* graph.py:295: the test of the singleton
PairBuild(i) ==
    /\ pair.req[i].pc = "build"
    /\ pair' = [pair EXCEPT !.req[i].pc =
                   IF pair.instance = 0 THEN "construct" ELSE "fetch"]
    /\ UNCHANGED notPairVars

\* graph.py:296-303: a GeminiAgentGraph is constructed and published
PairConstruct(i) ==
    /\ pair.req[i].pc = "construct"
    /\ pair' = [pair EXCEPT !.instance = i, !.req[i].pc = "fetch"]
    /\ UNCHANGED notPairVars

\* graph.py:304: the graph of whatever instance is published now
PairFetch(i) ==
    /\ pair.req[i].pc = "fetch"
    /\ pair' = [pair EXCEPT !.req[i].graph = pair.instance,
                            !.req[i].pc = "dispatch"]
    /\ UNCHANGED notPairVars

\* run.py:19-32: the next node of request i, or its return
PairStage(i) ==
    /\ pair.req[i].pc \in {"dispatch", "llm_structured", "router", "tool",
                           "finalize", "end"}
    /\ pair' = [pair EXCEPT !.req[i] = RunStage(@, StateOf(i), llm, tools)]
    /\ UNCHANGED notPairVars

PairNext ==
    \E i \in Requests :
        \/ PairBuild(i)
        \/ PairConstruct(i)
        \/ PairFetch(i)
        \/ PairStage(i)

SpecPair == PairInit /\ [][PairNext]_vars

\* The request as it ends when it runs with nothing else in the process
Alone(i) ==
    RunAlone([pair.req[i] EXCEPT !.pc = "dispatch", !.st = init_state(@.query),
                                 !.resp = <<>>],
             llm, tools)

\* C34: under every interleaving of the stages of two requests, a finished
\* request has the selected_tool, tool_args, intermediate, output and trace
\* (and the response) it has when it runs alone against the same answers of
\* its collaborators, and a step of one request leaves the other request's
\* state as it was
C34_RequestsIndependent ==
    /\ [](\A i \in Requests :
             pair.req[i].pc = "done" =>
                /\ pair.req[i].st = Alone(i).st
                /\ pair.req[i].resp = Alone(i).resp)
    /\ [][\A i \in Requests :
             pair'.req[i] # pair.req[i] =>
                \A j \in Requests \ {i} : pair'.req[j] = pair.req[j]]_vars

\* both requests constructed an instance (the unlocked test of the singleton
\* let both through), the first finished while the second was still in the
\* graph, and they answered different queries through different tools
C34_Witness ==
    /\ pair.instance = 2
    /\ pair.req[1].graph = 2
    /\ pair.req[1].pc = "done"
    /\ pair.req[2].pc = "finalize"
    /\ pair.req[1].query # pair.req[2].query
    /\ pair.req[1].st.selected_tool = "book_meeting_room"
    /\ pair.req[2].st.selected_tool = "ihos_doc_search"

----------------------------------------------------------------------------
(* The client handle: src/services/milvus/milvus_repo.py get_client *)

\* how many calls of get_client one thread makes
MaxGets == 2

\* gc.client is 0 for None and otherwise the number of the construction that
\* made the client; gc.lock is 0 or the thread that holds _lock
ClientInit ==
    /\ AgentIdle
    /\ llm = FALSE
    /\ StreamIdle
    /\ SplitIdle
    /\ BookIdle
    /\ MilvusIdle
    /\ QueryIdle
    /\ IngestIdle
    /\ PairIdle
    /\ EndpointIdle
    /\ gc = [client |-> 0, lock |-> 0, built |-> 0,
             pc |-> [t \in 1..MaxThreads |-> "idle"],
             rets |-> [t \in 1..MaxThreads |-> <<>>]]

\* a thread calls get_client
GetCall(t) ==
    /\ gc.pc[t] = "idle"
    /\ Len(gc.rets[t]) < MaxGets
    /\ gc' = [gc EXCEPT !.pc[t] = "test"]
    /\ UNCHANGED notClientVars

\* milvus_repo.py:61: the test outside the lock
GetTest(t) ==
    /\ gc.pc[t] = "test"
    /\ gc' = [gc EXCEPT !.pc[t] = IF gc.client = 0 THEN "acquire" ELSE "return"]
    /\ UNCHANGED notClientVars

\* milvus_repo.py:62: with _lock
GetAcquire(t) ==
    /\ gc.pc[t] = "acquire"
    /\ gc.lock = 0
    /\ gc' = [gc EXCEPT !.lock = t, !.pc[t] = "locked"]
    /\ UNCHANGED notClientVars

\* get_client that does not test the handle again under the lock
GetTestLocked_NoRecheck(t) ==
    /\ gc.pc[t] = "locked"
    /\ gc' = [gc EXCEPT !.pc[t] = "construct"]
    /\ UNCHANGED notClientVars

\* milvus_repo.py:63: the test under the lock
GetTestLocked(t) ==
    /\ gc.pc[t] = "locked"
    /\ gc' = [gc EXCEPT !.pc[t] = IF gc.client = 0 THEN "construct" ELSE "release"]
    /\ UNCHANGED notClientVars

\* milvus_repo.py:64-65: _get_uri or MilvusClient(...) raises, the exception
\* leaves the with block (the lock is released) and the call; or the client is
\* made and assigned
GetConstruct(t) ==
    /\ gc.pc[t] = "construct"
    /\ \E raised \in BOOLEAN :
         gc' = IF raised
               THEN [gc EXCEPT !.lock = 0, !.pc[t] = "idle",
                               !.rets[t] = Append(@, [raised |-> TRUE, client |-> 0])]
               ELSE [gc EXCEPT !.client = gc.built + 1, !.built = @ + 1,
                               !.pc[t] = "release"]
    /\ UNCHANGED notClientVars

\* the end of the with block
GetRelease(t) ==
    /\ gc.pc[t] = "release"
    /\ gc' = [gc EXCEPT !.lock = 0, !.pc[t] = "return"]
    /\ UNCHANGED notClientVars

\* milvus_repo.py:66: return _client
GetReturn(t) ==
    /\ gc.pc[t] = "return"
    /\ gc' = [gc EXCEPT !.pc[t] = "idle",
                        !.rets[t] = Append(@, [raised |-> FALSE, client |-> gc.client])]
    /\ UNCHANGED notClientVars

ClientNext ==
    \E t \in 1..MaxThreads :
        \/ GetCall(t)
        \/ GetTest(t)
        \/ GetAcquire(t)
        \/ GetTestLocked(t)
        \/ GetConstruct(t)
        \/ GetRelease(t)
        \/ GetReturn(t)

SpecClient == ClientInit /\ [][ClientNext]_vars

\* C35: under every interleaving of the threads in get_client at most one
\* client is ever constructed and assigned to the handle, the handle never
\* changes once it is set, every call that returns gives that client, and a
\* construction that raises leaves the handle None and the lock free
C35_OneClient ==
    /\ [](/\ gc.built <= 1
          /\ gc.client = gc.built
          /\ \A t \in 1..MaxThreads : \A k \in DOMAIN gc.rets[t] :
                ~gc.rets[t][k].raised =>
                   gc.rets[t][k].client = gc.client /\ gc.client # 0)
    /\ [][ /\ gc.client # 0 => gc'.client = gc.client
           /\ \A t \in 1..MaxThreads :
                (gc.pc[t] = "construct" /\ gc'.pc[t] = "idle") =>
                   gc'.client = 0 /\ gc'.lock = 0 ]_vars

\* a construction raised in one call of thread 1; a later construction made
\* the client, and both threads got it
C35_Witness ==
    /\ gc.rets[1] = <<[raised |-> TRUE, client |-> 0], [raised |-> FALSE, client |-> 1]>>
    /\ Len(gc.rets[2]) >= 1
    /\ ~Last(gc.rets[2]).raised
    /\ Last(gc.rets[2]).client = 1

----------------------------------------------------------------------------
(* Properties of insert_embeddings and of the migration flag *)

\* the keys a caller may have put for the primary key
KeyFields == {"id", "primary_key"}

\* C36: what insert_embeddings sends to the store, on the first attempt and
\* on the retried one, is the caller's records without the keys id and
\* primary_key and otherwise as they are; the rows a successful insert adds
\* carry neither key; and the caller's records stay as they were while the
\* call runs
C36_NoCallerKeys ==
    /\ [](\A t \in DOMAIN thr :
             /\ Len(thr[t].data) = Len(thr[t].records)
             /\ \A i \in DOMAIN thr[t].data :
                   /\ DOMAIN thr[t].data[i] = (DOMAIN thr[t].records[i]) \ KeyFields
                   /\ \A k \in DOMAIN thr[t].data[i] :
                         thr[t].data[i][k] = thr[t].records[i][k])
    /\ [][\A t \in DOMAIN thr :
             /\ thr[t].pc \notin {"idle", "returned", "raised"} =>
                   thr'[t].records = thr[t].records /\ thr'[t].data = thr[t].data
             /\ (thr[t].pc \in {"insert", "retry"} /\ thr'[t].pc = "returned") =>
                   LET c == thr[t].coll_name
                       old == collections[c].rows
                       new == collections'[c].rows
                   IN  /\ new = old \o thr[t].data
                       /\ \A i \in (Len(old) + 1)..Len(new) :
                             (DOMAIN new[i]) \cap KeyFields = {} ]_vars

\* records with both keys went through the migration and were stored by the
\* retried insert without them, the caller's records still carrying them
C36_Witness ==
    \E t \in DOMAIN thr :
        /\ thr[t].pc = "returned"
        /\ Len(InsertOps(thr[t].ops)) = 2
        /\ thr[t].records # <<>>
        /\ KeyFields \subseteq DOMAIN thr[t].records[1]
        /\ collections[thr[t].coll_name].rows # <<>>
        /\ Last(collections[thr[t].coll_name].rows) = [embedding |-> 3]

\* the call of thread t has dropped or created a collection
Rebuilt(t) ==
    \E i \in 1..Len(thr[t].ops) : thr[t].ops[i].op \in {"drop", "create"}

\* C39: the migration flag is monotone.  It is set as soon as a call is in
\* the migration path and stays set, whatever the drop, the recreate and the
\* retried insert do; and a call that meets a primary-key mismatch while the
\* flag is set, on whatever collection, raises without a drop or a create
C39_FlagMonotone ==
    /\ [](\A t \in DOMAIN thr :
             (thr[t].pc \in {"drop", "ensure", "retry"} \/ Rebuilt(t)) =>
                migrationAttempted)
    /\ [][ /\ migrationAttempted => migrationAttempted'
           /\ \A t \in DOMAIN thr :
                /\ ( /\ migrationAttempted
                     /\ thr[t].pc \in {"insert", "retry"}
                     /\ thr'[t].pc \notin {"insert", "retry", "returned"}
                     /\ Last(thr'[t].ops).err = "primary_key" ) =>
                        thr'[t].pc \in {"check", "raised"}
                /\ ( /\ migrationAttempted
                     /\ thr[t].pc = "check"
                     /\ thr'[t] # thr[t] ) =>
                        /\ thr'[t].pc = "raised"
                        /\ thr'[t].ops = thr[t].ops ]_vars

\* the migration of thread 1 failed at the recreate; the flag is set, and the
\* primary-key mismatch thread 2 met on the other collection propagated with
\* no drop and no create
C39_Witness ==
    /\ migrationAttempted
    /\ thr[1].pc = "raised"
    /\ \E i \in 1..Len(thr[1].ops) :
          thr[1].ops[i].op = "create" /\ ~thr[1].ops[i].ok
    /\ thr[2].pc = "raised"
    /\ thr[2].coll_name # thr[1].coll_name
    /\ Len(thr[2].ops) = 1
    /\ thr[2].ops[1].err = "primary_key"

----------------------------------------------------------------------------
(* The streaming endpoint: src/api/main.py invoke_stream.event_gen, with
   src/services/api/conversation_service.py append_messages *)

\* how many tokens stream_agent yields at most
MaxTokens == 2

\* what stream_agent yields to one request
TokenStreams == UNION {[1..n -> {"a", "b"}] : n \in 0..MaxTokens}

\* the endpoint's argument q
EndpointQueries == {"q"}

\* conversation_service.py:43-47: the messages as append_messages pushes them
Stamped(messages) ==
    [k \in DOMAIN messages |->
        [role |-> messages[k].role, content |-> messages[k].content, ts |-> "now"]]

EndpointInit ==
    /\ AgentIdle
    /\ llm = FALSE
    /\ StreamIdle
    /\ SplitIdle
    /\ BookIdle
    /\ MilvusIdle
    /\ QueryIdle
    /\ IngestIdle
    /\ PairIdle
    /\ ClientIdle
    /\ \E q \in EndpointQueries, tokens \in TokenStreams :
         ep = [pc |-> "for", q |-> q, tokens |-> tokens, i |-> 0,
               collected |-> <<>>, sent |-> <<>>, connected |-> TRUE,
               detected |-> FALSE, history |-> <<>>]

\* the client goes away
EpDisconnect ==
    /\ ep.pc # "end"
    /\ ep.connected
    /\ ep' = [ep EXCEPT !.connected = FALSE]
    /\ UNCHANGED notEndpointVars

\* main.py:149 with 157-169: the for statement asks stream_agent for the next
\* token: there is one, or the stream is exhausted (the else clause runs), or
\* it raises a connection error (return) or another exception (an error event,
\* then return)
EpFor ==
    /\ ep.pc = "for"
    /\ \/ /\ ep.i < Len(ep.tokens)
          /\ ep' = [ep EXCEPT !.pc = "test"]
       \/ /\ ep.i = Len(ep.tokens)
          /\ ep' = [ep EXCEPT !.pc = "else"]
       \/ ep' = [ep EXCEPT !.pc = "end"]
       \/ ep' = [ep EXCEPT !.pc = "end",
                           !.sent = Append(@, "event: error\ndata: boom\n\n")]
    /\ UNCHANGED notEndpointVars

\* the loop body leaving the generator when a disconnect is detected
EpBody_ReturnOnDisconnect ==
    /\ ep.pc = "test"
    /\ LET token == ep.tokens[ep.i + 1]
       IN  ep' = IF ~ep.connected
                 THEN [ep EXCEPT !.pc = "end", !.detected = TRUE]
                 ELSE [ep EXCEPT !.pc = "for", !.i = @ + 1,
                                 !.collected = Append(@, token),
                                 !.sent = Append(@, "data: " \o token \o "\n\n")]
    /\ UNCHANGED notEndpointVars

\* main.py:150-153: the loop body: break on a disconnect, else collect the
\* token and yield its event
EpBody ==
    /\ ep.pc = "test"
    /\ LET token == ep.tokens[ep.i + 1]
       IN  ep' = IF ~ep.connected
                 THEN [ep EXCEPT !.pc = "persist", !.detected = TRUE]
                 ELSE [ep EXCEPT !.pc = "for", !.i = @ + 1,
                                 !.collected = Append(@, token),
                                 !.sent = Append(@, "data: " \o token \o "\n\n")]
    /\ UNCHANGED notEndpointVars

\* main.py:154-156: the else clause of the for statement
EpElse ==
    /\ ep.pc = "else"
    /\ ep' = [ep EXCEPT !.pc = "persist",
                        !.sent = IF ep.connected
                                 THEN Append(@, "event: done\ndata: [DONE]\n\n")
                                 ELSE @]
    /\ UNCHANGED notEndpointVars

\* main.py:171-173 with conversation_service.py:37-56: the pair is pushed to
\* the history when anything was collected; a failure of update_one is
\* swallowed
EpPersist ==
    /\ ep.pc = "persist"
    /\ IF ep.collected # <<>>
       THEN LET answer == Join(ep.collected, "")
                messages == <<[role |-> "user", content |-> ep.q],
                              [role |-> "assistant", content |-> answer]>>
            IN  \E ok \in BOOLEAN :
                  ep' = [ep EXCEPT !.pc = "end",
                                   !.history = IF ok THEN @ \o Stamped(messages)
                                               ELSE @]
       ELSE ep' = [ep EXCEPT !.pc = "end"]
    /\ UNCHANGED notEndpointVars

EndpointNext ==
    \/ EpDisconnect
    \/ EpFor
    \/ EpBody
    \/ EpElse
    \/ EpPersist

SpecEndpoint == EndpointInit /\ [][EndpointNext]_vars

\* the done events among the events sent
DoneEvents == SelectSeq(ep.sent, LAMBDA e : e = "event: done\ndata: [DONE]\n\n")

\* C37 as claimed: nothing is persisted for a request whose loop detected a
\* disconnect; the done event is sent at most once, after the event of every
\* token, and not to a request whose loop detected a disconnect
C37_Original ==
    /\ ep.detected => ep.history = <<>>
    /\ Len(DoneEvents) <= 1
    /\ DoneEvents # <<>> =>
          /\ Last(ep.sent) = "event: done\ndata: [DONE]\n\n"
          /\ Len(ep.collected) = Len(ep.tokens)
          /\ ~ep.detected

\* what does hold: the pair is persisted only after the loop ended with at
\* least one token collected, and the assistant message is the tokens sent
C37_PersistsWhatWasSent ==
    ep.history # <<>> =>
       /\ ep.collected # <<>>
       /\ Len(ep.history) = 2
       /\ ep.history[1].content = ep.q
       /\ ep.history[2].content = Join(ep.collected, "")

----------------------------------------------------------------------------
(* Algebra of the conflict test *)

\* the schedule document holds a well-formed interval of the date asked about
WellFormedOn(doc, date) ==
    /\ Has(doc, "start_time")
    /\ Has(doc, "end_time")
    /\ StrLt(doc.start_time, doc.end_time)
    /\ doc.booking_date = date

\* C38: when the requested interval and the stored one are well formed
\* (start < end), the conflict query finds the stored interval exactly when
\* exStart < reqEnd and reqStart < exEnd, and exactly when the filter, given
\* the two intervals in each other's place, matches
C38_SymmetricHalfOpen ==
    (bookLog.op = "available" /\ StrLt(bookLog.time_start, bookLog.time_end)) =>
        \A doc \in BookingDocs :
            WellFormedOn(doc, bookLog.booking_date) =>
                LET found == \E i \in 1..Len(bookLog.result.bookings) :
                                 bookLog.result.bookings[i] = doc
                    asked == [doc EXCEPT !.start_time = bookLog.time_start,
                                         !.end_time = bookLog.time_end]
                IN  /\ found <=> ( /\ StrLt(doc.start_time, bookLog.time_end)
                                   /\ StrLt(bookLog.time_start, doc.end_time) )
                    /\ found <=> Matches(asked, doc.start_time, doc.end_time,
                                         bookLog.booking_date)

\* 09:30-09:45 is asked about while 09:00-10:00 is stored: only the third
\* clause holds, and the stored interval is found
C38_Witness ==
    /\ bookLog.op = "available"
    /\ bookLog.booking_date = "01-09-2023"
    /\ bookLog.time_start = "09:30"
    /\ bookLog.time_end = "09:45"
    /\ Len(schedule_booking) = 1
    /\ WellFormedOn(schedule_booking[1], "01-09-2023")
    /\ schedule_booking[1].start_time = "09:00"
    /\ schedule_booking[1].end_time = "10:00"
    /\ bookLog.result.bookings = schedule_booking

----------------------------------------------------------------------------
(* stream_agent over the request it runs: src/inference/run.py:35-78 with
   the language model absent *)

\* run.py:41-42: invoke_agent has returned inside stream_agent
StreamEnter_Intermediate ==
    /\ pc = "done"
    /\ spc = "idle"
    /\ base_output' = "TOOL: " \o Or(resp[1].output, "")
    /\ spc' = "start"
    /\ UNCHANGED <<emitted, truth, last, pending, yielded, live>>
    /\ UNCHANGED notStreamVars

StreamEnter ==
    /\ pc = "done"
    /\ spc = "idle"
    /\ base_output' = Or(resp[1].output, "")
    /\ spc' = "start"
    /\ UNCHANGED <<emitted, truth, last, pending, yielded, live>>
    /\ UNCHANGED notStreamVars

\* no client: GOOGLE_API_KEY or the client library is missing
NoModelInit ==
    /\ tools \in Registries
    /\ llm = FALSE
    /\ \E query \in Queries : st = init_state(query)
    /\ pc = "dispatch"
    /\ visited = <<>>
    /\ toolCall = NoCall
    /\ llmCalls = NoLlmCalls
    /\ resp = <<>>
    /\ StreamIdle
    /\ SplitIdle
    /\ BookIdle
    /\ MilvusIdle
    /\ QueryIdle
    /\ IngestIdle
    /\ RestIdle

NoModelNext ==
    \/ Dispatch
    \/ LlmStructured
    \/ Router
    \/ Tool
    \/ Finalize
    \/ Return
    \/ StreamEnter
    \/ StreamStart
    \/ Yield
    \/ FallbackEnd

SpecNoModel == NoModelInit /\ [][NoModelNext]_vars

\* the `output` invoke_agent returns for the query when it is called on its
\* own, whatever its collaborators would answer
OutputsAlone ==
    { RunAlone([NewRequest(st.query, sc) EXCEPT !.pc = "dispatch"],
               llm, tools).resp[1].output : sc \in PairScripts }

\* C40: without a language model, what stream_agent has yielded is at every
\* moment a prefix of the output invoke_agent returns for the query, it grows
\* by one character at a time, and when the generator is exhausted it is that
\* output
C40_StreamEqualsOutput ==
    /\ [](spc \in {"fallback", "exhausted"} =>
             \A out \in OutputsAlone :
                /\ IsPrefix(yielded, out)
                /\ spc = "exhausted" => yielded = out)
    /\ [](spc \in {"idle", "start"} => yielded = "")
    /\ [][yielded' # yielded =>
             /\ Len(yielded') = Len(yielded) + 1
             /\ IsPrefix(yielded, yielded')]_vars

\* a booking query answered without a model: the echo of the query was
\* streamed to its end
C40_Witness ==
    /\ spc = "exhausted"
    /\ st.query = "13t ph5ng"
    /\ Ran("llm_structured")
    /\ toolCall.invoked
    /\ yielded = "ECHO: 13t ph5ng"
    /\ resp[1].output = yielded

====
